---- MODULE Spec2Model ----
(***************************************************************************)
(* A model of dep-inspector (capnspacehook/dep-inspector): the generic     *)
(* three-way diff of findings (processFindings), the equality predicates   *)
(* it is used with (capsEqual, issuesEqual), the totals aggregator         *)
(* (currentTotals), the go.mod/go.sum backup-and-restore discipline of     *)
(* mainErr, the two-task fan-out/fan-in of inspectDep, the list of changed *)
(* dependencies and the loop of compareDepVersionsRecursively, the order   *)
(* of manifest rewrites and analyzer goroutines in inspectDepVersions, the *)
(* environment of subprocesses, the lint adapters, the scope computed by   *)
(* listImportedPackages and lintDepVersion, the filenames trimFilename     *)
(* gives the lint issues, the restoreGoMod of the older main.go, the       *)
(* source lines lineReader reads, the cancellation of the context, and     *)
(* the fan-in of the linters in lintDepVersion.                            *)
(*                                                                         *)
(* Go values are modelled as follows: a slice is a sequence, a string a    *)
(* sequence of one-character strings, a map a function whose DOMAIN is     *)
(* its key set, a nil error the empty sequence and a non-nil error the     *)
(* sequence of the leaf errors it wraps.  Go indexes are 0-based: an       *)
(* index idx of the code is element idx + 1 of the sequence.               *)
(***************************************************************************)
EXTENDS Integers, Sequences, FiniteSets, TLC

VARIABLES
    \* processFindings: its three parameters, its three results
    oldVerFindings, newVerFindings, equal,
    removedFindings, staleFindings, newFindings, diffPc,
    \* the results of processFindings called with the two lists exchanged
    swappedFindings,
    \* inspectDepVersions on lint issues: one old and one new issue, and the
    \* diff of the two under issuesEqual of part_004 and of lint.go
    oldIssue, newIssue, fixedIssues, staleIssues, newIssues,
    fixedIssuesLintGo, staleIssuesLintGo, newIssuesLintGo, lintPc,
    \* inspectDepVersions on capabilities: one old and one new capability,
    \* the result of capsEqual on them and their diff
    oldCap, newCap, capsEqualResult, removedCaps, sameCaps, addedCaps, capPc,
    \* currentTotals: the three count maps as they are in memory, the maps
    \* the caller passed, and the three results
    rmFindings, sameFindings, addedFindings, totalsArgs,
    grandTotal, currentTotalFindings, deltaTotalFindings, totalsPc,
    \* mainErr: the live go.mod and go.sum, their contents when the program
    \* started, the three backup pairs of the depInspector, the number of
    \* arguments, the position in mainErr, the changed dependencies still to
    \* inspect, and the errors: of the body, of the deferred restore and
    \* close, and the one mainErr returns
    goMod, goSum, initialFiles, de, narg, mainPc, depsToInspect,
    initOk, restoreAttempted, runErr, restoreErr, closeErr, ret,
    \* whether the context of mainRetCode is cancelled, and the step of the
    \* deferred restoreGoMod at which the file system failed
    ctxDone, restoreFail,
    \* inspectDep: the three channels, the wait group, the positions of the
    \* two tasks and what each computed, and the position, the collected
    \* errors and the return values of inspectDep
    capsCh, issuesCh, errCh, errChClosed, wg, capTaskPc, lintTaskPc, capOut, lintOut,
    inspectPc, inspectErrs, inspectRet,
    \* compareDepVersionsRecursively: the requirements of the old and of the
    \* new snapshot, the list of changed dependencies, the position, the
    \* error returned, and the dependencies inspected so far with the outcome
    oldRequire, newRequire, changedDeps, resolvePc, resolveRet, inspected,
    \* inspectDepVersions: the position of its goroutine, the version it is
    \* inspecting, the version go.mod and go.sum are being rewritten for,
    \* the position of each task of each version, the two wait groups of
    \* each version, and whether a task of the version failed
    exPc, exCur, manifestOpen, taskPc, exWg, exLintWg, exFailed,
    \* Subprocesses: the environment of the program, the command started
    \* last and the environment it was given
    parentEnv, lastCmd, childEnv, envPc,
    \* The lint adapters: how the run of the linter ended, what it wrote to
    \* its standard output, the adapter called and what it returned
    cmdRun, cmdOutput, adapter, adapterRet, adapterPc,
    \* The scope of an inspection: the imports of every package, the
    \* packages listPackages loaded, the list listImportedPackages returned,
    \* the directories and packages lintDepVersion hands to the linters,
    \* the error inspectDep returned, and the position
    pkgImportGraph, loadedPkgs, importsToCheck, golangciLintDirs, staticcheckDirs, scopeErr, scopePc,
    \* Filenames of lint issues: the module cache, the files the linters
    \* reported for two issues, the filenames lintDepVersion keeps for them,
    \* the result of issuesEqual on the two issues, and the position
    modCache, rawFilenameA, rawFilenameB, issueFilenameA, issueFilenameB,
    filenamesEqual, pathPc,
    \* mainErr of main.go: the four handles the depInspector keeps open (the
    \* live go.mod and go.sum and their backups), the contents the live
    \* files had at the start, the number of setupDepVersion calls made, the
    \* error restoreGoMod returned, and the position
    mgModFile, mgSumFile, mgModBackupFile, mgSumBackupFile, mgInitial,
    mgSetups, mgRestoreErr, mgPc,
    \* Source lines: the lines of a source file, the lineReader on it, the
    \* line of the reader before the last call of getSrcLines, the range the
    \* call asked for, what it returned, what the scanner loop of lint.go
    \* returns for the same range, the number of calls made on the reader,
    \* and the position
    srcFile, lineRdr, lineBefore, startLine, endLine, srcLines,
    scannerSrcLines, readerCalls, linesPc,
    \* lintDepVersion: its two channels, its wait group, the position of
    \* each linter task and what the linter returned, and the position, the
    \* collected errors, the issues received and the result of
    \* lintDepVersion
    lnIssuesCh, lnErrCh, lnErrChClosed, lnWg, linterPc, linterOut,
    lnPc, lnErrs, lnIssues, lnRet

diffVars == <<oldVerFindings, newVerFindings, equal,
              removedFindings, staleFindings, newFindings, diffPc,
              swappedFindings>>

lintVars == <<oldIssue, newIssue, fixedIssues, staleIssues, newIssues,
              fixedIssuesLintGo, staleIssuesLintGo, newIssuesLintGo, lintPc>>

capVars == <<oldCap, newCap, capsEqualResult, removedCaps, sameCaps, addedCaps, capPc>>

totalsVars == <<rmFindings, sameFindings, addedFindings, totalsArgs,
                grandTotal, currentTotalFindings, deltaTotalFindings, totalsPc>>

mainVars == <<goMod, goSum, initialFiles, de, narg, mainPc, depsToInspect,
              initOk, restoreAttempted, runErr, restoreErr, closeErr, ret,
              ctxDone, restoreFail>>

inspectVars == <<capsCh, issuesCh, errCh, errChClosed, wg, capTaskPc, lintTaskPc,
                 capOut, lintOut, inspectPc, inspectErrs, inspectRet>>

resolveVars == <<oldRequire, newRequire, changedDeps, resolvePc, resolveRet, inspected>>

exclusiveVars == <<exPc, exCur, manifestOpen, taskPc, exWg, exLintWg, exFailed>>

envVars == <<parentEnv, lastCmd, childEnv, envPc>>

adapterVars == <<cmdRun, cmdOutput, adapter, adapterRet, adapterPc>>

scopeVars == <<pkgImportGraph, loadedPkgs, importsToCheck, golangciLintDirs, staticcheckDirs, scopeErr, scopePc>>

pathVars == <<modCache, rawFilenameA, rawFilenameB, issueFilenameA, issueFilenameB,
              filenamesEqual, pathPc>>

mgVars == <<mgModFile, mgSumFile, mgModBackupFile, mgSumBackupFile, mgInitial,
            mgSetups, mgRestoreErr, mgPc>>

linesVars == <<srcFile, lineRdr, lineBefore, startLine, endLine, srcLines,
               scannerSrcLines, readerCalls, linesPc>>

fanVars == <<lnIssuesCh, lnErrCh, lnErrChClosed, lnWg, linterPc, linterOut,
             lnPc, lnErrs, lnIssues, lnRet>>

vars == <<diffVars, lintVars, capVars, totalsVars, mainVars, inspectVars, resolveVars, exclusiveVars, envVars, adapterVars, scopeVars, pathVars, mgVars, linesVars, fanVars>>

\* The value of the variables of a part of the program that a
\* specification does not exercise.
DiffIdle ==
    /\ oldVerFindings = <<>> /\ newVerFindings = <<>> /\ equal = {}
    /\ removedFindings = <<>> /\ staleFindings = <<>> /\ newFindings = <<>>
    /\ diffPc = "idle" /\ swappedFindings = <<>>

LintIdle ==
    /\ oldIssue = <<>> /\ newIssue = <<>>
    /\ fixedIssues = <<>> /\ staleIssues = <<>> /\ newIssues = <<>>
    /\ fixedIssuesLintGo = <<>> /\ staleIssuesLintGo = <<>> /\ newIssuesLintGo = <<>>
    /\ lintPc = "idle"

CapIdle ==
    /\ oldCap = <<>> /\ newCap = <<>> /\ capsEqualResult = FALSE
    /\ removedCaps = <<>> /\ sameCaps = <<>> /\ addedCaps = <<>>
    /\ capPc = "idle"

TotalsIdle ==
    /\ rmFindings = <<>> /\ sameFindings = <<>> /\ addedFindings = <<>>
    /\ totalsArgs = <<>> /\ grandTotal = 0
    /\ currentTotalFindings = <<>> /\ deltaTotalFindings = <<>>
    /\ totalsPc = "idle"

ResolveIdle ==
    /\ oldRequire = <<>> /\ newRequire = <<>> /\ changedDeps = <<>>
    /\ resolvePc = "idle" /\ resolveRet = <<>> /\ inspected = <<>>

ExclusiveIdle ==
    /\ exPc = "idle" /\ exCur = "" /\ manifestOpen = "none" /\ taskPc = <<>>
    /\ exWg = <<>> /\ exLintWg = <<>> /\ exFailed = <<>>

EnvIdle ==
    /\ parentEnv = <<>> /\ lastCmd = "" /\ childEnv = {} /\ envPc = "idle"

AdapterIdle ==
    /\ cmdRun = <<>> /\ cmdOutput = <<>> /\ adapter = "" /\ adapterRet = <<>>
    /\ adapterPc = "idle"

ScopeIdle ==
    /\ pkgImportGraph = <<>> /\ loadedPkgs = {} /\ importsToCheck = <<>>
    /\ golangciLintDirs = {} /\ staticcheckDirs = {}
    /\ scopeErr = <<>> /\ scopePc = "idle"

PathIdle ==
    /\ modCache = <<>> /\ rawFilenameA = <<>> /\ rawFilenameB = <<>>
    /\ issueFilenameA = <<>> /\ issueFilenameB = <<>>
    /\ filenamesEqual = FALSE /\ pathPc = "idle"

MgIdle ==
    /\ mgModFile = <<>> /\ mgSumFile = <<>> /\ mgModBackupFile = <<>>
    /\ mgSumBackupFile = <<>> /\ mgInitial = <<>>
    /\ mgSetups = 0 /\ mgRestoreErr = <<>> /\ mgPc = "idle"

LinesIdle ==
    /\ srcFile = <<>> /\ lineRdr = <<>> /\ lineBefore = 0 /\ startLine = 0
    /\ endLine = 0 /\ srcLines = <<>> /\ scannerSrcLines = <<>>
    /\ readerCalls = 0 /\ linesPc = "idle"

FanIdle ==
    /\ lnIssuesCh = <<>> /\ lnErrCh = <<>> /\ lnErrChClosed = FALSE /\ lnWg = 0
    /\ linterPc = <<>> /\ linterOut = <<>> /\ lnPc = "idle"
    /\ lnErrs = <<>> /\ lnIssues = <<>> /\ lnRet = <<>>

InspectIdle ==
    /\ capsCh = <<>> /\ issuesCh = <<>> /\ errCh = <<>> /\ errChClosed = FALSE
    /\ wg = 0 /\ capTaskPc = "idle" /\ lintTaskPc = "idle" /\ capOut = <<>> /\ lintOut = <<>>
    /\ inspectPc = "idle" /\ inspectErrs = <<>> /\ inspectRet = <<>>

MainIdle ==
    /\ goMod = <<>> /\ goSum = <<>> /\ initialFiles = <<>> /\ de = <<>>
    /\ narg = 0 /\ mainPc = "idle" /\ depsToInspect = <<>>
    /\ initOk = FALSE /\ restoreAttempted = FALSE
    /\ runErr = <<>> /\ restoreErr = <<>> /\ closeErr = <<>> /\ ret = <<>>
    /\ ctxDone = FALSE /\ restoreFail = ""

(***************************************************************************)
(* Helpers on sequences.                                                   *)
(***************************************************************************)
Range(s) == {s[i] : i \in 1..Len(s)}

SeqsUpTo(S, n) == UNION {[1..k -> S] : k \in 0..n}

Count(s, v) == Cardinality({i \in 1..Len(s) : s[i] = v})

\* slices.IndexFunc(s, f): the 0-based index of the first element of s that
\* satisfies f, or -1.  The predicate f is given as the set of the values
\* that satisfy it.
IndexFunc(s, f) ==
    IF \E i \in 1..Len(s) : s[i] \in f
    THEN (CHOOSE i \in 1..Len(s) :
              /\ s[i] \in f
              /\ \A j \in 1..(i - 1) : s[j] \notin f) - 1
    ELSE -1

(***************************************************************************)
(* processFindings (part_010:646-679, main.go:483-510).  The predicate     *)
(* equal is given by its graph: <<a, b>> \in equal iff equal(a, b).        *)
(* First loop: every old finding, in order, goes to removedFindings when   *)
(* no new finding matches it and otherwise puts newVerFindings[idx] in     *)
(* staleFindings.  Second loop: every new finding without a match among    *)
(* the old ones goes to newFindings.  slices.Clip changes no element.      *)
(***************************************************************************)
processFindings_StaleKeepsOld(oldF, newF, eq) ==
    LET first[i \in 0..Len(oldF)] ==
            IF i = 0 THEN [removed |-> <<>>, stale |-> <<>>]
            ELSE LET finding == oldF[i]
                     idx == IndexFunc(newF, {f2 \in Range(newF) : <<finding, f2>> \in eq})
                     acc == first[i - 1]
                 IN  IF idx = -1
                     THEN [acc EXCEPT !.removed = Append(@, finding)]
                     ELSE [acc EXCEPT !.stale = Append(@, finding)]
        second[i \in 0..Len(newF)] ==
            IF i = 0 THEN <<>>
            ELSE LET finding == newF[i]
                     idx == IndexFunc(oldF, {f2 \in Range(oldF) : <<finding, f2>> \in eq})
                 IN  IF idx = -1 THEN Append(second[i - 1], finding) ELSE second[i - 1]
        final == first[Len(oldF)]
    IN  <<final.removed, final.stale, second[Len(newF)]>>

processFindings_AddedIsUnusedNew(oldF, newF, eq) ==
    LET first[i \in 0..Len(oldF)] ==
            IF i = 0 THEN [removed |-> <<>>, stale |-> <<>>]
            ELSE LET finding == oldF[i]
                     idx == IndexFunc(newF, {f2 \in Range(newF) : <<finding, f2>> \in eq})
                     acc == first[i - 1]
                 IN  IF idx = -1
                     THEN [acc EXCEPT !.removed = Append(@, finding)]
                     ELSE [acc EXCEPT !.stale = Append(@, newF[idx + 1])]
        final == first[Len(oldF)]
        used == Range(final.stale)
    IN  <<final.removed, final.stale, SelectSeq(newF, LAMBDA f : f \notin used)>>

processFindings_DedupStale(oldF, newF, eq) ==
    LET first[i \in 0..Len(oldF)] ==
            IF i = 0 THEN [removed |-> <<>>, stale |-> <<>>]
            ELSE LET finding == oldF[i]
                     idx == IndexFunc(newF, {f2 \in Range(newF) : <<finding, f2>> \in eq})
                     acc == first[i - 1]
                 IN  IF idx = -1
                     THEN [acc EXCEPT !.removed = Append(@, finding)]
                     ELSE IF newF[idx + 1] \in Range(acc.stale)
                          THEN acc
                          ELSE [acc EXCEPT !.stale = Append(@, newF[idx + 1])]
        second[i \in 0..Len(newF)] ==
            IF i = 0 THEN <<>>
            ELSE LET finding == newF[i]
                     idx == IndexFunc(oldF, {f2 \in Range(oldF) : <<finding, f2>> \in eq})
                 IN  IF idx = -1 THEN Append(second[i - 1], finding) ELSE second[i - 1]
        final == first[Len(oldF)]
    IN  <<final.removed, final.stale, second[Len(newF)]>>

processFindings_RemovedPrepended(oldF, newF, eq) ==
    LET first[i \in 0..Len(oldF)] ==
            IF i = 0 THEN [removed |-> <<>>, stale |-> <<>>]
            ELSE LET finding == oldF[i]
                     idx == IndexFunc(newF, {f2 \in Range(newF) : <<finding, f2>> \in eq})
                     acc == first[i - 1]
                 IN  IF idx = -1
                     THEN [acc EXCEPT !.removed = <<finding>> \o @]
                     ELSE [acc EXCEPT !.stale = Append(@, newF[idx + 1])]
        second[i \in 0..Len(newF)] ==
            IF i = 0 THEN <<>>
            ELSE LET finding == newF[i]
                     idx == IndexFunc(oldF, {f2 \in Range(oldF) : <<finding, f2>> \in eq})
                 IN  IF idx = -1 THEN Append(second[i - 1], finding) ELSE second[i - 1]
        final == first[Len(oldF)]
    IN  <<final.removed, final.stale, second[Len(newF)]>>

processFindings_SecondLoopSwapsArgs(oldF, newF, eq) ==
    LET first[i \in 0..Len(oldF)] ==
            IF i = 0 THEN [removed |-> <<>>, stale |-> <<>>]
            ELSE LET finding == oldF[i]
                     idx == IndexFunc(newF, {f2 \in Range(newF) : <<finding, f2>> \in eq})
                     acc == first[i - 1]
                 IN  IF idx = -1
                     THEN [acc EXCEPT !.removed = Append(@, finding)]
                     ELSE [acc EXCEPT !.stale = Append(@, newF[idx + 1])]
        second[i \in 0..Len(newF)] ==
            IF i = 0 THEN <<>>
            ELSE LET finding == newF[i]
                     idx == IndexFunc(oldF, {f2 \in Range(oldF) : <<f2, finding>> \in eq})
                 IN  IF idx = -1 THEN Append(second[i - 1], finding) ELSE second[i - 1]
        final == first[Len(oldF)]
    IN  <<final.removed, final.stale, second[Len(newF)]>>

processFindings(oldF, newF, eq) ==
    LET first[i \in 0..Len(oldF)] ==
            IF i = 0 THEN [removed |-> <<>>, stale |-> <<>>]
            ELSE LET finding == oldF[i]
                     idx == IndexFunc(newF, {f2 \in Range(newF) : <<finding, f2>> \in eq})
                     acc == first[i - 1]
                 IN  IF idx = -1
                     THEN [acc EXCEPT !.removed = Append(@, finding)]
                     ELSE [acc EXCEPT !.stale = Append(@, newF[idx + 1])]
        second[i \in 0..Len(newF)] ==
            IF i = 0 THEN <<>>
            ELSE LET finding == newF[i]
                     idx == IndexFunc(oldF, {f2 \in Range(oldF) : <<finding, f2>> \in eq})
                 IN  IF idx = -1 THEN Append(second[i - 1], finding) ELSE second[i - 1]
        final == first[Len(oldF)]
    IN  <<final.removed, final.stale, second[Len(newF)]>>

(***************************************************************************)
(* The diff on its own.  The findings of the two lists are distinct        *)
(* objects (the elements are pointers decoded from two subprocess runs),   *)
(* and the predicate is any relation between old and new findings, in      *)
(* either argument order: symmetric or not, matching one finding with      *)
(* several or with none.                                                   *)
(***************************************************************************)
\* The number of findings of the two lists together.
MaxFindings == 4

OldFinding(i) == <<"old", i>>
NewFinding(i) == <<"new", i>>

DiffInit ==
    /\ \E n \in 0..MaxFindings, m \in 0..MaxFindings :
          /\ n + m <= MaxFindings
          /\ oldVerFindings = [i \in 1..n |-> OldFinding(i)]
          /\ newVerFindings = [i \in 1..m |-> NewFinding(i)]
    /\ equal \in SUBSET ((Range(oldVerFindings) \X Range(newVerFindings))
                          \cup (Range(newVerFindings) \X Range(oldVerFindings)))
    /\ removedFindings = <<>>
    /\ staleFindings = <<>>
    /\ newFindings = <<>>
    /\ diffPc = "call"
    /\ swappedFindings = <<>>

ProcessFindings ==
    /\ diffPc = "call"
    /\ \E r \in {processFindings(oldVerFindings, newVerFindings, equal)} :
           /\ removedFindings' = r[1]
           /\ staleFindings' = r[2]
           /\ newFindings' = r[3]
    /\ diffPc' = "done"
    /\ UNCHANGED <<oldVerFindings, newVerFindings, equal, swappedFindings>>
    /\ UNCHANGED <<lintVars, capVars, totalsVars, mainVars, inspectVars, resolveVars, exclusiveVars, envVars, adapterVars, scopeVars, pathVars, mgVars, linesVars, fanVars>>

\* The same call with the two lists exchanged and the same predicate.
ProcessFindingsSwapped ==
    /\ diffPc = "done"
    /\ swappedFindings = <<>>
    /\ swappedFindings' = processFindings(newVerFindings, oldVerFindings, equal)
    /\ UNCHANGED <<oldVerFindings, newVerFindings, equal,
                   removedFindings, staleFindings, newFindings, diffPc>>
    /\ UNCHANGED <<lintVars, capVars, totalsVars, mainVars, inspectVars, resolveVars, exclusiveVars, envVars, adapterVars, scopeVars, pathVars, mgVars, linesVars, fanVars>>

DiffNext == ProcessFindings \/ ProcessFindingsSwapped

InitDiff == DiffInit /\ LintIdle /\ CapIdle /\ TotalsIdle /\ MainIdle /\ InspectIdle /\ ResolveIdle /\ ExclusiveIdle /\ EnvIdle /\ AdapterIdle /\ ScopeIdle /\ PathIdle /\ MgIdle /\ LinesIdle /\ FanIdle

SpecDiff == InitDiff /\ [][DiffNext]_vars

(***************************************************************************)
(* Claims about processFindings.                                           *)
(***************************************************************************)
\* An old finding x has a match when equal(x, y) holds for some new finding
\* y; a new finding y has a match when equal(y, x) holds for some old
\* finding x: the argument orders in which the two loops call equal.
HasMatchInNew(x) == \E j \in 1..Len(newVerFindings) : <<x, newVerFindings[j]>> \in equal
HasMatchInOld(y) == \E i \in 1..Len(oldVerFindings) : <<y, oldVerFindings[i]>> \in equal

MatchedOld == {i \in 1..Len(oldVerFindings) : HasMatchInNew(oldVerFindings[i])}
MatchedNew == {j \in 1..Len(newVerFindings) : HasMatchInOld(newVerFindings[j])}

\* C3: diff completeness.  Every old finding is classified exactly once: it
\* occurs in removedFindings exactly when no new finding matches it, and
\* the stale list has one entry for every old finding that has a match;
\* every new finding occurs in newFindings exactly when it has no match
\* among the old findings, never both.
C3_DiffCompleteness ==
    diffPc = "done" =>
        /\ Range(removedFindings) \subseteq Range(oldVerFindings)
        /\ \A i \in 1..Len(oldVerFindings) :
              Count(removedFindings, oldVerFindings[i]) =
                  IF HasMatchInNew(oldVerFindings[i]) THEN 0
                  ELSE Count(oldVerFindings, oldVerFindings[i])
        /\ Len(staleFindings) = Cardinality(MatchedOld)
        /\ Range(newFindings) \subseteq Range(newVerFindings)
        /\ \A j \in 1..Len(newVerFindings) :
              Count(newFindings, newVerFindings[j]) =
                  IF HasMatchInOld(newVerFindings[j]) THEN 0
                  ELSE Count(newVerFindings, newVerFindings[j])

\* A diff with a removed, a stale and an added finding, in which one old
\* finding matches a new finding that is not the one kept for it.
C3_Witness ==
    /\ diffPc = "done"
    /\ removedFindings # <<>>
    /\ staleFindings # <<>>
    /\ newFindings # <<>>

\* The predicate behaves as an equality between the two lists: it is
\* symmetric, and two old findings that match a common new finding match
\* the same new findings.
IsEquality ==
    /\ \A x \in Range(oldVerFindings), y \in Range(newVerFindings) :
          <<x, y>> \in equal <=> <<y, x>> \in equal
    /\ \A x1, x2 \in Range(oldVerFindings), y1, y2 \in Range(newVerFindings) :
          (<<x1, y1>> \in equal /\ <<x2, y1>> \in equal /\ <<x2, y2>> \in equal)
              => <<x1, y2>> \in equal

\* C4 as stated: both count identities, also when several old findings
\* match the same new finding or one old finding matches several new ones
\* (read for the predicates that behave as an equality, the reading most
\* favourable to the claim).
C4_CountIdentities_Original ==
    (diffPc = "done" /\ IsEquality) =>
        /\ Len(removedFindings) + Len(staleFindings) = Len(oldVerFindings)
        /\ Len(newFindings) + Len(staleFindings) = Len(newVerFindings)

\* The predicate pairs old and new findings one to one: it is symmetric
\* between the two lists, an old finding matches at most one new finding
\* and a new finding at most one old finding.
OneToOne ==
    /\ \A x \in Range(oldVerFindings), y \in Range(newVerFindings) :
          <<x, y>> \in equal <=> <<y, x>> \in equal
    /\ \A x \in Range(oldVerFindings) :
          Cardinality({y \in Range(newVerFindings) : <<x, y>> \in equal}) <= 1
    /\ \A y \in Range(newVerFindings) :
          Cardinality({x \in Range(oldVerFindings) : <<x, y>> \in equal}) <= 1

\* C4, amended: len(removed) + len(stale) = len(Old) for every predicate;
\* len(added) plus the number of new findings that have a match = len(New);
\* len(added) + len(stale) = len(New) when the predicate pairs the findings
\* one to one.
C4_CountIdentities ==
    diffPc = "done" =>
        /\ Len(removedFindings) + Len(staleFindings) = Len(oldVerFindings)
        /\ Len(newFindings) + Cardinality(MatchedNew) = Len(newVerFindings)
        /\ OneToOne =>
              Len(newFindings) + Len(staleFindings) = Len(newVerFindings)

\* Two old findings match the same new finding, which is therefore kept
\* twice in the stale list.
C4_Witness ==
    /\ diffPc = "done"
    /\ Len(staleFindings) = 2
    /\ staleFindings[1] = staleFindings[2]
    /\ Len(newVerFindings) = 1

\* The place in the stale list of the old finding at position i, which has
\* a match: the number of old findings up to i that have one.
StaleRank(i) == Cardinality({k \in MatchedOld : k <= i})

\* The first new finding, by index, that matches x.
FirstMatch(x) ==
    newVerFindings[CHOOSE j \in 1..Len(newVerFindings) :
        /\ <<x, newVerFindings[j]>> \in equal
        /\ \A k \in 1..Len(newVerFindings) :
              <<x, newVerFindings[k]>> \in equal => j <= k]

\* C5: for every old finding that has a match, the stale entry is the first
\* new finding that matches it: an element of the new list, not the old
\* finding.
C5_StaleKeepsNew ==
    diffPc = "done" =>
        \A i \in MatchedOld :
            /\ StaleRank(i) \in 1..Len(staleFindings)
            /\ staleFindings[StaleRank(i)] = FirstMatch(oldVerFindings[i])
            /\ staleFindings[StaleRank(i)] \in Range(newVerFindings)
            /\ staleFindings[StaleRank(i)] # oldVerFindings[i]

\* An old finding matches both new findings and the second old finding
\* only the second new one: the entries kept are NewFinding(1), then
\* NewFinding(2).
C5_Witness ==
    /\ diffPc = "done"
    /\ Len(oldVerFindings) = 2
    /\ Len(newVerFindings) = 2
    /\ <<OldFinding(1), NewFinding(1)>> \in equal
    /\ <<OldFinding(1), NewFinding(2)>> \in equal
    /\ <<OldFinding(2), NewFinding(1)>> \notin equal
    /\ staleFindings = <<NewFinding(1), NewFinding(2)>>

\* s is a subsequence of t in t's order: the elements of s are found in t
\* from left to right, each after the one before.
IsSubSeq(s, t) ==
    LET pos[k \in 0..Len(s)] ==
            IF k = 0 THEN 0
            ELSE LET later == {j \in 1..Len(t) : j > pos[k - 1] /\ t[j] = s[k]}
                 IN  IF pos[k - 1] > Len(t) \/ later = {}
                     THEN Len(t) + 1
                     ELSE CHOOSE j \in later : \A l \in later : j <= l
    IN  pos[Len(s)] <= Len(t)

\* The index in the new list of a finding of the new list (the findings of
\* a list are distinct objects).
NewIndex(y) == CHOOSE j \in 1..Len(newVerFindings) : newVerFindings[j] = y

\* C21 as stated: removedFindings is a subsequence of the old list in its
\* order, newFindings a subsequence of the new list in its order, and the
\* entries of staleFindings, which are taken from the new list, stand in
\* the relative order they have in the new list.
C21_OrderPreservation_Original ==
    diffPc = "done" =>
        /\ IsSubSeq(removedFindings, oldVerFindings)
        /\ IsSubSeq(newFindings, newVerFindings)
        /\ \A k, l \in 1..Len(staleFindings) :
              k < l => NewIndex(staleFindings[k]) <= NewIndex(staleFindings[l])

\* C21, amended: removedFindings is a subsequence of the old list in its
\* order, newFindings a subsequence of the new list in its order, and
\* staleFindings follows the order of the old list: its entries are the
\* first matches of the old findings that have a match, in the order of
\* those old findings, whatever the order of the matches in the new list.
C21_OrderPreservation ==
    diffPc = "done" =>
        /\ IsSubSeq(removedFindings, oldVerFindings)
        /\ IsSubSeq(newFindings, newVerFindings)
        /\ IsSubSeq(removedFindings,
                    SelectSeq(oldVerFindings, LAMBDA x : ~HasMatchInNew(x)))
        /\ Len(staleFindings) = Cardinality(MatchedOld)
        /\ \A i, j \in MatchedOld :
              i < j =>
                 /\ StaleRank(i) < StaleRank(j)
                 /\ staleFindings[StaleRank(i)] = FirstMatch(oldVerFindings[i])
                 /\ staleFindings[StaleRank(j)] = FirstMatch(oldVerFindings[j])

\* The first old finding matches the second new finding and the second old
\* finding the first new one: the stale list holds the two new findings in
\* the order opposite to the one of the new list.
C21_Witness ==
    /\ diffPc = "done"
    /\ Len(oldVerFindings) = 2
    /\ Len(newVerFindings) = 2
    /\ staleFindings = <<NewFinding(2), NewFinding(1)>>

\* C28: swap symmetry.  The removed list of processFindings(X, Y, eq) is the
\* added list of processFindings(Y, X, eq), element for element and in the
\* same order, for every predicate eq (symmetric or not); and so is the
\* added list of the first call the removed list of the second.
C28_SwapSymmetry ==
    (diffPc = "done" /\ swappedFindings # <<>>) =>
        /\ removedFindings = swappedFindings[3]
        /\ newFindings = swappedFindings[1]

\* Both calls were made on two lists of two findings with a predicate that
\* is not symmetric, and a finding is removed and another one added.
C28_Witness ==
    /\ diffPc = "done"
    /\ swappedFindings # <<>>
    /\ Len(oldVerFindings) = 2
    /\ Len(newVerFindings) = 2
    /\ \E x \in Range(oldVerFindings), y \in Range(newVerFindings) :
          <<x, y>> \in equal /\ <<y, x>> \notin equal
    /\ removedFindings # <<>>
    /\ newFindings # <<>>

(***************************************************************************)
(* Strings the code searches or trims are sequences of characters.         *)
(***************************************************************************)
\* strings.Index(s, substr): the 0-based index of the first occurrence of
\* substr in s, or -1.
strings_Index(s, substr) ==
    LET occurs == {i \in 0..(Len(s) - Len(substr)) :
                       SubSeq(s, i + 1, i + Len(substr)) = substr}
    IN  IF occurs = {} THEN -1
        ELSE CHOOSE i \in occurs : \A k \in occurs : i <= k

\* The white space strings.TrimSpace removes (unicode.IsSpace, the ASCII part).
IsSpace(c) == c \in {" ", "\t", "\n", "\r", "\f"}

TrimSpace_LeadingOnly(s) ==
    LET start == CHOOSE i \in 1..(Len(s) + 1) :
                     /\ \A k \in 1..(i - 1) : IsSpace(s[k])
                     /\ i <= Len(s) => ~IsSpace(s[i])
    IN  SubSeq(s, start, Len(s))

\* strings.TrimSpace(s): s without its leading and trailing white space.
TrimSpace(s) ==
    LET start == CHOOSE i \in 1..(Len(s) + 1) :
                     /\ \A k \in 1..(i - 1) : IsSpace(s[k])
                     /\ i <= Len(s) => ~IsSpace(s[i])
        stop  == CHOOSE j \in (start - 1)..Len(s) :
                     /\ \A k \in (j + 1)..Len(s) : IsSpace(s[k])
                     /\ j >= start => ~IsSpace(s[j])
    IN  SubSeq(s, start, stop)

\* getDepRelPath (part_004:322-335, lint.go:251-265): the part of path from
\* the first "/" after the first occurrence of dep; path itself when dep
\* does not occur in it or no "/" follows.
getDepRelPath(dep, path) ==
    LET depIdx == strings_Index(path, dep)
    IN  IF depIdx = -1 THEN path
        ELSE LET depVerIdx == depIdx + Len(dep)
                 slashIdx == strings_Index(SubSeq(path, depVerIdx + 1, Len(path)), <<"/">>)
             IN  IF slashIdx = -1 THEN path
                 ELSE SubSeq(path, depVerIdx + slashIdx + 1, Len(path))

(***************************************************************************)
(* issuesEqual.  A lintIssue is [FromLinter, Text, SourceLines, Pos] with  *)
(* Pos = [Filename, Line, Column].                                         *)
(***************************************************************************)
\* lint.go:219-249, on lintIssue values with lintPosition: no column check.
issuesEqualLintGo(dep, a, b) ==
    IF a.FromLinter # b.FromLinter \/ a.Text # b.Text THEN FALSE
    ELSE IF a.Pos.Line # b.Pos.Line THEN FALSE
    ELSE IF Len(a.SourceLines) # Len(b.SourceLines) THEN FALSE
    ELSE IF getDepRelPath(dep, a.Pos.Filename) # getDepRelPath(dep, b.Pos.Filename) THEN FALSE
    ELSE \A i \in 1..Len(a.SourceLines) :
             TrimSpace(a.SourceLines[i]) = TrimSpace(b.SourceLines[i])

issuesEqual_NoColumn(dep, a, b) == issuesEqualLintGo(dep, a, b)

\* part_004:287-320, on *lintIssue with token.Position.
issuesEqual(dep, a, b) ==
    IF a.FromLinter # b.FromLinter \/ a.Text # b.Text THEN FALSE
    ELSE IF a.Pos.Line # b.Pos.Line THEN FALSE
    ELSE IF a.Pos.Column # b.Pos.Column THEN FALSE
    ELSE IF Len(a.SourceLines) # Len(b.SourceLines) THEN FALSE
    ELSE IF getDepRelPath(dep, a.Pos.Filename) # getDepRelPath(dep, b.Pos.Filename) THEN FALSE
    ELSE \A i \in 1..Len(a.SourceLines) :
             TrimSpace(a.SourceLines[i]) = TrimSpace(b.SourceLines[i])

(***************************************************************************)
(* The lint issues of the model.  dep is the module m/d; the files lie in  *)
(* the module cache /c under the directory of version 1 or of version 2.   *)
(***************************************************************************)
MaxSrcLines == 1

Dep == <<"m", "/", "d">>

FileA_v1 == <<"/", "c", "/", "m", "/", "d", "@", "1", "/", "a">>
FileA_v2 == <<"/", "c", "/", "m", "/", "d", "@", "2", "/", "a">>
FileB_v2 == <<"/", "c", "/", "m", "/", "d", "@", "2", "/", "b">>

Filenames == {FileA_v1, FileA_v2, FileB_v2}

\* A source line: some code between leading and trailing white space.
LineCores == {<<"f">>, <<"f", " ", "g">>}
Paddings == {<<<<>>, <<>>>>, <<<<" ", " ">>, <<>>>>, <<<<" ">>, <<"\t">>>>}
SrcLines == {p[1] \o c \o p[2] : p \in Paddings, c \in LineCores}

Linters == {"errcheck", "staticcheck SA1000"}
Texts == {"T", "U"}

\* The old issue: its scalar fields are fixed, the new issue varies in each.
OldIssues ==
    {[FromLinter |-> "errcheck", Text |-> "T", SourceLines |-> src,
      Pos |-> [Filename |-> FileA_v1, Line |-> 10, Column |-> 1]] :
        src \in SeqsUpTo(SrcLines, MaxSrcLines)}

NewIssues ==
    {[FromLinter |-> l, Text |-> t, SourceLines |-> src,
      Pos |-> [Filename |-> f, Line |-> ln, Column |-> col]] :
        l \in Linters, t \in Texts, src \in SeqsUpTo(SrcLines, MaxSrcLines),
        f \in Filenames, ln \in {10, 11}, col \in {1, 2}}

LintInit ==
    /\ oldIssue \in OldIssues
    /\ newIssue \in NewIssues
    /\ fixedIssues = <<>> /\ staleIssues = <<>> /\ newIssues = <<>>
    /\ fixedIssuesLintGo = <<>> /\ staleIssuesLintGo = <<>> /\ newIssuesLintGo = <<>>
    /\ lintPc = "call"

\* inspectDepVersions (part_010:486-488): the diff of the old and the new
\* lint issues under issuesEqual(dep, a, b); beside it the same diff under
\* the issuesEqual of lint.go.
ProcessLintIssues ==
    /\ lintPc = "call"
    /\ LET old == <<oldIssue>>
           new == <<newIssue>>
           all == {oldIssue, newIssue}
       IN  \E r \in {processFindings(old, new,
                          {p \in all \X all : issuesEqual(Dep, p[1], p[2])})},
              r0 \in {processFindings(old, new,
                          {p \in all \X all : issuesEqualLintGo(Dep, p[1], p[2])})} :
           /\ fixedIssues' = r[1]
           /\ staleIssues' = r[2]
           /\ newIssues' = r[3]
           /\ fixedIssuesLintGo' = r0[1]
           /\ staleIssuesLintGo' = r0[2]
           /\ newIssuesLintGo' = r0[3]
    /\ lintPc' = "done"
    /\ UNCHANGED <<oldIssue, newIssue>>
    /\ UNCHANGED <<diffVars, capVars, totalsVars, mainVars, inspectVars, resolveVars, exclusiveVars, envVars, adapterVars, scopeVars, pathVars, mgVars, linesVars, fanVars>>

LintNext == ProcessLintIssues

InitLint == LintInit /\ DiffIdle /\ CapIdle /\ TotalsIdle /\ MainIdle /\ InspectIdle /\ ResolveIdle /\ ExclusiveIdle /\ EnvIdle /\ AdapterIdle /\ ScopeIdle /\ PathIdle /\ MgIdle /\ LinesIdle /\ FanIdle

SpecLint == InitLint /\ [][LintNext]_vars

(***************************************************************************)
(* Claims about issuesEqual.                                               *)
(***************************************************************************)
\* Lines s and t differ only by leading and trailing white space: each is
\* some white space, a common middle part, and some white space.
OnlyOuterSpaceDiffers(s, t) ==
    \E i1 \in 0..Len(s), i2 \in 0..Len(t) :
        \E j1 \in i1..Len(s), j2 \in i2..Len(t) :
            /\ \A k \in (1..i1) \cup ((j1 + 1)..Len(s)) : IsSpace(s[k])
            /\ \A k \in (1..i2) \cup ((j2 + 1)..Len(t)) : IsSpace(t[k])
            /\ SubSeq(s, i1 + 1, j1) = SubSeq(t, i2 + 1, j2)

\* The two issues agree on everything issuesEqual reads except the column
\* and the outer white space of their source lines.
AgreeButColumnAndSpace ==
    /\ oldIssue.FromLinter = newIssue.FromLinter
    /\ oldIssue.Text = newIssue.Text
    /\ oldIssue.Pos.Line = newIssue.Pos.Line
    /\ getDepRelPath(Dep, oldIssue.Pos.Filename) = getDepRelPath(Dep, newIssue.Pos.Filename)
    /\ Len(oldIssue.SourceLines) = Len(newIssue.SourceLines)
    /\ \A i \in 1..Len(oldIssue.SourceLines) :
          OnlyOuterSpaceDiffers(oldIssue.SourceLines[i], newIssue.SourceLines[i])

\* C7: two issues with the same linter, text, line, column, dependency
\* relative filename and number of source lines, whose source lines differ
\* only by leading and trailing white space, are equal under issuesEqual
\* (part_004 and lint.go), and their diff is removed = [], stale = [the new
\* issue], added = [].
C7_WhitespaceInsensitive ==
    (lintPc = "done" /\ AgreeButColumnAndSpace
        /\ oldIssue.Pos.Column = newIssue.Pos.Column) =>
        /\ issuesEqual(Dep, oldIssue, newIssue)
        /\ issuesEqualLintGo(Dep, oldIssue, newIssue)
        /\ fixedIssues = <<>> /\ staleIssues = <<newIssue>> /\ newIssues = <<>>
        /\ fixedIssuesLintGo = <<>> /\ staleIssuesLintGo = <<newIssue>>
        /\ newIssuesLintGo = <<>>

\* The old issue quotes "  f", the new one " f" followed by a tab, in the
\* same file of the other version's directory.
C7_Witness ==
    /\ lintPc = "done"
    /\ AgreeButColumnAndSpace
    /\ oldIssue.Pos.Column = newIssue.Pos.Column
    /\ oldIssue.SourceLines = << <<" ", " ", "f">> >>
    /\ newIssue.SourceLines = << <<" ", "f", "\t">> >>
    /\ oldIssue.Pos.Filename # newIssue.Pos.Filename
    /\ staleIssues = <<newIssue>>

capsEqual(a, b) ==
    IF a.PackageDir # b.PackageDir THEN FALSE
    ELSE IF a.PackageName # b.PackageName THEN FALSE
    ELSE IF a.Capability # b.Capability THEN FALSE
    ELSE IF a.CapabilityType # b.CapabilityType THEN FALSE
    ELSE IF Len(a.Path) # Len(b.Path) THEN FALSE
    ELSE \A i \in 1..Len(a.Path) :
             /\ a.Path[i].Name = b.Path[i].Name
             /\ LET callA == a.Path[i].Site
                    callB == a.Path[i].Site
                IN  /\ callA.Filename = callB.Filename
                    /\ callA.Line = callB.Line
                    /\ callA.Column = callB.Column

(***************************************************************************)
(* The capabilities of the model: call paths of 1 to MaxPathLen hops.      *)
(***************************************************************************)
MaxPathLen == 2

BaseSite == [Filename |-> "a.go", Line |-> "10", Column |-> "5"]

Sites == {BaseSite,
          [BaseSite EXCEPT !.Filename = "b.go"],
          [BaseSite EXCEPT !.Line = "11"],
          [BaseSite EXCEPT !.Column = "6"]}

FuncNames == {"pkg.F", "os.Open"}

PathsOver(sites) ==
    SeqsUpTo([Name : FuncNames, Site : sites], MaxPathLen) \ {<<>>}

BaseCap == [PackageName |-> "pkg", Capability |-> "CAPABILITY_FILES",
            Path |-> <<>>, PackageDir |-> "m/d/pkg",
            CapabilityType |-> "CAPABILITY_TYPE_DIRECT"]

\* The capability without its path: the base one, and one that differs
\* from it in each field in turn.
CapHeads == {BaseCap,
             [BaseCap EXCEPT !.PackageName = "other"],
             [BaseCap EXCEPT !.Capability = "CAPABILITY_NETWORK"],
             [BaseCap EXCEPT !.PackageDir = "m/d/other"],
             [BaseCap EXCEPT !.CapabilityType = "CAPABILITY_TYPE_TRANSITIVE"]}

OldCaps == {[BaseCap EXCEPT !.Path = p] : p \in PathsOver({BaseSite})}

NewCaps == {[h EXCEPT !.Path = p] : h \in CapHeads, p \in PathsOver(Sites)}

CapInit ==
    /\ oldCap \in OldCaps
    /\ newCap \in NewCaps
    /\ capsEqualResult = FALSE
    /\ removedCaps = <<>> /\ sameCaps = <<>> /\ addedCaps = <<>>
    /\ capPc = "call"

\* inspectDepVersions (part_010:485): the diff of the old and the new
\* capabilities under capsEqual.
ProcessCaps ==
    /\ capPc = "call"
    /\ capsEqualResult' = capsEqual(oldCap, newCap)
    /\ LET all == {oldCap, newCap}
       IN  \E r \in {processFindings(<<oldCap>>, <<newCap>>,
                          {p \in all \X all : capsEqual(p[1], p[2])})} :
           /\ removedCaps' = r[1]
           /\ sameCaps' = r[2]
           /\ addedCaps' = r[3]
    /\ capPc' = "done"
    /\ UNCHANGED <<oldCap, newCap>>
    /\ UNCHANGED <<diffVars, lintVars, totalsVars, mainVars, inspectVars, resolveVars, exclusiveVars, envVars, adapterVars, scopeVars, pathVars, mgVars, linesVars, fanVars>>

CapNext == ProcessCaps

InitCap == CapInit /\ DiffIdle /\ LintIdle /\ TotalsIdle /\ MainIdle /\ InspectIdle /\ ResolveIdle /\ ExclusiveIdle /\ EnvIdle /\ AdapterIdle /\ ScopeIdle /\ PathIdle /\ MgIdle /\ LinesIdle /\ FanIdle

SpecCap == InitCap /\ [][CapNext]_vars

\* C6: capsEqual(a, b) is true if and only if PackageDir, PackageName,
\* Capability, CapabilityType and the whole call path are equal, the path
\* hop by hop in Name and in the call site's Filename, Line and Column; two
\* capabilities that differ only in a call site are not equal (and so are
\* not classified as stale).
C6_CapsEqualIff ==
    capPc = "done" =>
        /\ capsEqualResult <=>
              /\ oldCap.PackageDir = newCap.PackageDir
              /\ oldCap.PackageName = newCap.PackageName
              /\ oldCap.Capability = newCap.Capability
              /\ oldCap.CapabilityType = newCap.CapabilityType
              /\ Len(oldCap.Path) = Len(newCap.Path)
              /\ \A i \in 1..Len(oldCap.Path) :
                    /\ oldCap.Path[i].Name = newCap.Path[i].Name
                    /\ oldCap.Path[i].Site.Filename = newCap.Path[i].Site.Filename
                    /\ oldCap.Path[i].Site.Line = newCap.Path[i].Site.Line
                    /\ oldCap.Path[i].Site.Column = newCap.Path[i].Site.Column
        /\ oldCap # newCap => sameCaps = <<>>

(***************************************************************************)
(* currentTotals (part_014:253-272).  A map[string]int is a function from  *)
(* its keys; reading a missing key gives 0.                                *)
(***************************************************************************)
\* m[name] of Go.
MapGet(m, name) == IF name \in DOMAIN m THEN m[name] ELSE 0

\* m[name] = v of Go.
MapSet(m, name, v) == [k \in DOMAIN m \cup {name} |-> IF k = name THEN v ELSE m[k]]

\* The category names, in the order slices.Sort gives them.
CategoryNames == <<"Exec", "Files", "Network">>

\* The loop of the older currentTotals (part_014:335-350), which ranges
\* over newFindings alone.
currentTotals_NewFindingsOnly(rm, same, added) ==
    LET allNames == SelectSeq(CategoryNames, LAMBDA n : n \in DOMAIN added)
        loop[i \in 0..Len(allNames)] ==
            IF i = 0
            THEN [grandTotal |-> 0, current |-> same, delta |-> <<>>]
            ELSE LET acc == loop[i - 1]
                     name == allNames[i]
                     ok == name \in DOMAIN acc.current
                     total == MapGet(acc.current, name)
                     sum == IF ok THEN total + added[name] ELSE total
                 IN  [grandTotal |-> acc.grandTotal + sum,
                      current |-> MapSet(acc.current, name, sum),
                      delta |-> MapSet(acc.delta, name,
                                       total + added[name] - MapGet(rm, name))]
        final == loop[Len(allNames)]
    IN  [grandTotal |-> final.grandTotal, current |-> final.current,
         delta |-> final.delta, rm |-> rm, same |-> same, added |-> added]

\* currentTotals: the results, and the three argument maps as the call
\* leaves them (currentTotalFindings is a clone of sameFindings, so the
\* writes of the loop reach no argument).
currentTotals(rm, same, added) ==
    LET keys == DOMAIN rm \cup DOMAIN same \cup DOMAIN added
        \* the keys of the three maps, sorted and compacted
        allNames == SelectSeq(CategoryNames, LAMBDA n : n \in keys)
        loop[i \in 0..Len(allNames)] ==
            IF i = 0
            THEN [grandTotal |-> 0, current |-> same, delta |-> <<>>]
            ELSE LET acc == loop[i - 1]
                     name == allNames[i]
                     total == MapGet(same, name) + MapGet(added, name)
                 IN  [grandTotal |-> acc.grandTotal + total,
                      current |-> MapSet(acc.current, name, total),
                      delta |-> MapSet(acc.delta, name,
                                       MapGet(added, name) - MapGet(rm, name))]
        final == loop[Len(allNames)]
    IN  [grandTotal |-> final.grandTotal, current |-> final.current,
         delta |-> final.delta, rm |-> rm, same |-> same, added |-> added]

(***************************************************************************)
(* The count maps calculateTotals builds (lo.CountValuesBy): never nil,    *)
(* a key for every category that occurs, with its count of at least 1.     *)
(***************************************************************************)
MaxCount == 2

CountMaps ==
    UNION {[keys -> 1..MaxCount] : keys \in SUBSET Range(CategoryNames)}

TotalsInit ==
    /\ rmFindings \in CountMaps
    /\ sameFindings \in CountMaps
    /\ addedFindings \in CountMaps
    /\ totalsArgs = <<rmFindings, sameFindings, addedFindings>>
    /\ grandTotal = 0
    /\ currentTotalFindings = <<>>
    /\ deltaTotalFindings = <<>>
    /\ totalsPc = "call"

\* buildCombinedTotals (part_014:231-251) calling currentTotals on the
\* counts of the removed, the stale and the added findings.
CurrentTotals ==
    /\ totalsPc = "call"
    /\ \E r \in {currentTotals(rmFindings, sameFindings, addedFindings)} :
           /\ grandTotal' = r.grandTotal
           /\ currentTotalFindings' = r.current
           /\ deltaTotalFindings' = r.delta
           /\ rmFindings' = r.rm
           /\ sameFindings' = r.same
           /\ addedFindings' = r.added
    /\ totalsPc' = "done"
    /\ UNCHANGED totalsArgs
    /\ UNCHANGED <<diffVars, lintVars, capVars, mainVars, inspectVars, resolveVars, exclusiveVars, envVars, adapterVars, scopeVars, pathVars, mgVars, linesVars, fanVars>>

TotalsNext == CurrentTotals

InitTotals == TotalsInit /\ DiffIdle /\ LintIdle /\ CapIdle /\ MainIdle /\ InspectIdle /\ ResolveIdle /\ ExclusiveIdle /\ EnvIdle /\ AdapterIdle /\ ScopeIdle /\ PathIdle /\ MgIdle /\ LinesIdle /\ FanIdle

SpecTotals == InitTotals /\ [][TotalsNext]_vars

SumOver(m) ==
    LET sum[S \in SUBSET DOMAIN m] ==
            IF S = {} THEN 0
            ELSE LET k == CHOOSE k \in S : TRUE IN m[k] + sum[S \ {k}]
    IN  sum[DOMAIN m]

\* C9: delta identity.  With R, S, A the maps passed and a missing key read
\* as 0: the keys of current and of delta are the keys of R, S and A; for
\* each of them current[name] = S[name] + A[name] and delta[name] =
\* A[name] - R[name]; the grand total is the sum of current; R, S and A
\* are as they were passed.
C9_DeltaIdentity ==
    totalsPc = "done" =>
        LET R == totalsArgs[1]
            S == totalsArgs[2]
            A == totalsArgs[3]
            names == DOMAIN R \cup DOMAIN S \cup DOMAIN A
        IN  /\ DOMAIN currentTotalFindings = names
            /\ DOMAIN deltaTotalFindings = names
            /\ \A name \in names :
                  /\ currentTotalFindings[name] = MapGet(S, name) + MapGet(A, name)
                  /\ deltaTotalFindings[name] = MapGet(A, name) - MapGet(R, name)
            /\ grandTotal = SumOver(currentTotalFindings)
            /\ rmFindings = R /\ sameFindings = S /\ addedFindings = A

\* Each of the three names is a key of one map only: Exec was removed,
\* Files is stale, Network was added.
C9_Witness ==
    /\ totalsPc = "done"
    /\ DOMAIN totalsArgs[1] = {"Exec"}
    /\ DOMAIN totalsArgs[2] = {"Files"}
    /\ DOMAIN totalsArgs[3] = {"Network"}
    /\ deltaTotalFindings["Exec"] < 0
    /\ currentTotalFindings["Exec"] = 0
    /\ grandTotal = totalsArgs[2]["Files"] + totalsArgs[3]["Network"]


\* ------------------------------------------------------------------
\* mainErr: backing up the module manifests, pinning versions of the
\* dependency, inspecting them, and restoring the manifests on the way out.
\* A file is modelled by its bytes and the offset of the handle; go.mod and
\* go.sum on disk are their bytes, and every openModFiles gives handles at
\* offset 0 onto them.
\* ------------------------------------------------------------------

\* A nil *os.File
NilFile == [isNil |-> TRUE, data |-> <<>>, off |-> 0]

\* new(modFilePair)
NewModFilePair == [modFile |-> NilFile, sumFile |-> NilFile]

\* os.OpenFile(path, os.O_RDWR, 0o644) on a file holding data
OpenFile(data) == [isNil |-> FALSE, data |-> data, off |-> 0]

\* os.CreateTemp: a new empty file
CreateTemp == OpenFile(<<>>)

\* The restore of the older main.go, which does not truncate the live files
Truncate_NoOp(f, size) == f

\* (*os.File).Truncate(size): the offset of the handle stays
Truncate(f, size) == [f EXCEPT !.data = SubSeq(f.data, 1, size)]

\* (*os.File).Seek(offset, io.SeekStart)
Seek(f, offset) == [f EXCEPT !.off = offset]

\* (*os.File).Write at the offset of the handle; a gap past the end reads zero
Write(f, bytes) ==
    LET before == [i \in 1..f.off |-> IF i <= Len(f.data) THEN f.data[i] ELSE "0"]
        after  == SubSeq(f.data, f.off + Len(bytes) + 1, Len(f.data))
    IN [f EXCEPT !.data = before \o bytes \o after,
                 !.off  = f.off + Len(bytes)]

\* io.Copy(dst, src): src is read from its offset to the end, and written to
\* dst at its offset; the pair <<dst, src>> after the copy
io_Copy(dst, src) ==
    LET bytes == SubSeq(src.data, src.off + 1, Len(src.data))
    IN <<Write(dst, bytes),
         [src EXCEPT !.off = IF src.off < Len(src.data) THEN Len(src.data) ELSE src.off]>>

\* errors.Join: nil errors (the empty sequence) are dropped, the result is nil
\* when all are, and otherwise wraps every non-nil error
RECURSIVE errors_Join(_)
errors_Join(errs) ==
    IF errs = <<>> THEN <<>> ELSE Head(errs) \o errors_Join(Tail(errs))

\* The places where restoreGoMod can fail
RestoreFailures ==
    {"none", "open", "truncate go.mod", "truncate go.sum",
     "seek go.mod", "seek go.sum", "restoring go.mod", "restoring go.sum"}

\* restoreGoMod: the live files, the backup pair and the error it returns,
\* when the step named by fail (if any) fails
restoreGoMod(mod, sum, modBackupFiles, fail) ==
    LET modFile  == Truncate(OpenFile(mod), 0)
        sumFile  == Truncate(OpenFile(sum), 0)
        seekMod  == Seek(modBackupFiles.modFile, 0)
        seekSum  == Seek(modBackupFiles.sumFile, 0)
        seeked   == [modFile |-> seekMod, sumFile |-> seekSum]
        copyMod  == io_Copy(modFile, seekMod)
        copySum  == io_Copy(sumFile, seekSum)
        result(m, s, b, e) == [goMod |-> m, goSum |-> s, backup |-> b, err |-> e]
    IN  CASE fail = "open" -> result(mod, sum, modBackupFiles, <<fail>>)
          [] fail = "truncate go.mod" -> result(mod, sum, modBackupFiles, <<fail>>)
          [] fail = "truncate go.sum" ->
                result(modFile.data, sum, modBackupFiles, <<fail>>)
          [] fail = "seek go.mod" \/ modBackupFiles.modFile.isNil ->
                result(modFile.data, sumFile.data, modBackupFiles, <<"seek go.mod">>)
          [] fail = "seek go.sum" \/ modBackupFiles.sumFile.isNil ->
                result(modFile.data, sumFile.data,
                       [modBackupFiles EXCEPT !.modFile = seekMod], <<"seek go.sum">>)
          [] fail = "restoring go.mod" ->
                result(modFile.data, sumFile.data, seeked, <<fail>>)
          [] fail = "restoring go.sum" ->
                result(copyMod[1].data, sumFile.data,
                       [seeked EXCEPT !.modFile = copyMod[2]], <<fail>>)
          [] OTHER ->
                result(copyMod[1].data, copySum[1].data,
                       [modFile |-> copyMod[2], sumFile |-> copySum[2]], <<>>)

\* A deferred function that gives up when the context is cancelled
deferredRestoreGoMod_ChecksContext(done, mod, sum, modBackupFiles, fail) ==
    IF done
    THEN [goMod |-> mod, goSum |-> sum, backup |-> modBackupFiles,
          err |-> <<"context canceled">>]
    ELSE restoreGoMod(mod, sum, modBackupFiles, fail)

\* The deferred function of mainErr (part_010:146-150): it calls
\* de.restoreGoMod(de.modBackupFiles), which takes no context; done is the
\* state of the context of mainErr
deferredRestoreGoMod(done, mod, sum, modBackupFiles, fail) ==
    restoreGoMod(mod, sum, modBackupFiles, fail)

\* The places where parseAndBackupGoMod can fail
BackupFailures ==
    {"none", "open", "parsing go.mod", "creating backup go.mod file",
     "creating backup go.sum file", "copying go.mod", "copying go.sum"}

\* parseAndBackupGoMod: the backup pair and the error it returns, when the
\* step named by fail (if any) fails
parseAndBackupGoMod(mod, sum, modBackupFiles, fail) ==
    LET modFile == OpenFile(mod)
        sumFile == OpenFile(sum)
        copyMod == io_Copy(CreateTemp, modFile)
        copySum == io_Copy(CreateTemp, sumFile)
        result(b, e) == [backup |-> b, err |-> e]
    IN  CASE fail \in {"open", "parsing go.mod"} -> result(modBackupFiles, <<fail>>)
          [] fail = "creating backup go.mod file" ->
                result([modBackupFiles EXCEPT !.modFile = NilFile], <<fail>>)
          [] fail = "creating backup go.sum file" ->
                result([modFile |-> CreateTemp, sumFile |-> NilFile], <<fail>>)
          [] fail = "copying go.mod" ->
                result([modFile |-> CreateTemp, sumFile |-> CreateTemp], <<fail>>)
          [] fail = "copying go.sum" ->
                result([modFile |-> copyMod[1], sumFile |-> CreateTemp], <<fail>>)
          [] OTHER ->
                result([modFile |-> copyMod[1], sumFile |-> copySum[1]], <<>>)

\* Contents of go.mod and of go.sum: of several lengths, and of the same
\* length with different bytes
ModContents == {<<"a">>, <<"b">>, <<"a", "b">>}

SumContents == {<<>>, <<"h">>}

\* A setupDepVersion that pins and tidies again although the pair holds a
\* snapshot
setupDepVersion_PinsAgain(mod, sum, modBackupFiles) ==
    {[goMod |-> m, goSum |-> s, backup |-> modBackupFiles, err |-> e] :
        m \in ModContents, s \in SumContents,
        e \in {<<>>, <<"downloading">>, <<"tidying modules">>}}

\* setupDepVersion: every outcome it can have. With a snapshot in the pair
\* it restores the snapshot; without one "go get" and "go mod tidy" rewrite
\* the live files, to any contents, and either can fail.
setupDepVersion(mod, sum, modBackupFiles) ==
    IF ~modBackupFiles.modFile.isNil /\ ~modBackupFiles.sumFile.isNil
    THEN {restoreGoMod(mod, sum, modBackupFiles, fail) : fail \in RestoreFailures}
    ELSE {[goMod |-> m, goSum |-> s, backup |-> modBackupFiles, err |-> e] :
            m \in ModContents, s \in SumContents,
            e \in {<<>>, <<"downloading">>, <<"tidying modules">>}}

\* A command started with exec.CommandContext on a cancelled context does
\* not succeed (command.go:82-88): the outcomes of a step that runs one
\* are its failures
WithContext(done, outcomes) ==
    IF done THEN {r \in outcomes : r.err # <<>>} ELSE outcomes

\* setupDepVersion with the context of mainErr: restoring a snapshot runs
\* no command
setupDepVersionCtx(done, mod, sum, modBackupFiles) ==
    IF ~modBackupFiles.modFile.isNil /\ ~modBackupFiles.sumFile.isNil
    THEN setupDepVersion(mod, sum, modBackupFiles)
    ELSE WithContext(done, setupDepVersion(mod, sum, modBackupFiles))

\* The deferred function of the older main.go
mainErrDeferMainGo(r, rErr) ==
    IF r # <<>> THEN errors_Join(<<r, rErr>>) ELSE rErr

\* A deferred function that reports the restore's failure in place of the
\* body's
mainErrDefer_RestoreErrWins(r, rErr, cErr) ==
    IF rErr # <<>> THEN rErr ELSE errors_Join(<<r, cErr>>)

\* The deferred function of mainErr: ret = errors.Join(ret, restoreErr, closeErr)
mainErrDefer(r, rErr, cErr) == errors_Join(<<r, rErr, cErr>>)

\* The number of changed dependencies compareDepVersionsRecursively inspects
MaxChangedDeps == 1

MainInit ==
    /\ goMod \in ModContents
    /\ goSum \in SumContents
    /\ initialFiles = [mod |-> goMod, sum |-> goSum]
    /\ de = [modBackupFiles    |-> NewModFilePair,
             oldModBackupFiles |-> NewModFilePair,
             newModBackupFiles |-> NewModFilePair]
    /\ narg \in {1, 3}
    /\ mainPc = "init"
    /\ depsToInspect = <<>>
    /\ initOk = FALSE /\ restoreAttempted = FALSE
    /\ runErr = <<>> /\ restoreErr = <<>> /\ closeErr = <<>> /\ ret = <<>>
    /\ ctxDone = FALSE /\ restoreFail = ""

\* A return statement of mainErr after the defer statement
Return(err) == runErr' = err /\ mainPc' = "deferred"

\* de.init: find go.mod, back up go.mod and go.sum, find the module cache.
\* When it fails mainErr returns before the defer statement.
InitDepInspector ==
    /\ mainPc = "init"
    /\ \E fail \in BackupFailures \cup {"finding GOMOD", "getting GOMODCACHE"} :
         LET b == parseAndBackupGoMod(goMod, goSum, de.modBackupFiles,
                     IF fail = "getting GOMODCACHE" THEN "none" ELSE fail)
         IN /\ de' = IF fail = "finding GOMOD" THEN de
                     ELSE [de EXCEPT !.modBackupFiles = b.backup]
            /\ IF fail = "none"
               THEN initOk' = TRUE /\ mainPc' = "args" /\ ret' = ret
               ELSE initOk' = FALSE /\ mainPc' = "exited" /\ ret' = <<fail>>
    /\ UNCHANGED <<goMod, goSum, initialFiles, narg, depsToInspect,
                   restoreAttempted, runErr, restoreErr, closeErr>>
    /\ UNCHANGED <<ctxDone, restoreFail>>
    /\ UNCHANGED <<diffVars, lintVars, capVars, totalsVars, inspectVars, resolveVars, exclusiveVars, envVars, adapterVars, scopeVars, pathVars, mgVars, linesVars, fanVars>>

\* The argument checks of mainErr
ArgFailures ==
    IF narg = 1 THEN {"none", "exit: 2", "checking version"}
    ELSE {"none", "checking old version", "checking new version",
          "versions are the same", "old version is greater"}

CheckArgs ==
    /\ mainPc = "args"
    /\ \E fail \in ArgFailures :
         IF fail = "none"
         THEN /\ mainPc' = IF narg = 1 THEN "single_setup" ELSE "setup_old"
              /\ runErr' = runErr
         ELSE Return(<<fail>>)
    /\ UNCHANGED <<goMod, goSum, initialFiles, de, narg, depsToInspect,
                   initOk, restoreAttempted, restoreErr, closeErr, ret>>
    /\ UNCHANGED <<ctxDone, restoreFail>>
    /\ UNCHANGED <<diffVars, lintVars, capVars, totalsVars, inspectVars, resolveVars, exclusiveVars, envVars, adapterVars, scopeVars, pathVars, mgVars, linesVars, fanVars>>

\* compareDepVersionsRecursively: setupDepVersion of one version
SetupVersion(pc, pair, okPc) ==
    /\ mainPc = pc
    /\ \E r \in setupDepVersionCtx(ctxDone, goMod, goSum, de[pair]) :
         /\ goMod' = r.goMod
         /\ goSum' = r.goSum
         /\ de' = [de EXCEPT ![pair] = r.backup]
         /\ IF r.err = <<>> THEN mainPc' = okPc /\ runErr' = runErr
            ELSE Return(r.err)
    /\ UNCHANGED <<initialFiles, narg, depsToInspect,
                   initOk, restoreAttempted, restoreErr, closeErr, ret>>
    /\ UNCHANGED <<ctxDone, restoreFail>>
    /\ UNCHANGED <<diffVars, lintVars, capVars, totalsVars, inspectVars, resolveVars, exclusiveVars, envVars, adapterVars, scopeVars, pathVars, mgVars, linesVars, fanVars>>

\* compareDepVersionsRecursively: parseAndBackupGoMod of one version
BackupVersion(pc, pair, okPc) ==
    /\ mainPc = pc
    /\ \E fail \in BackupFailures :
         \E b \in {parseAndBackupGoMod(goMod, goSum, de[pair], fail)} :
            /\ de' = [de EXCEPT ![pair] = b.backup]
            /\ IF b.err = <<>> THEN mainPc' = okPc /\ runErr' = runErr
               ELSE Return(b.err)
    /\ UNCHANGED <<goMod, goSum, initialFiles, narg, depsToInspect,
                   initOk, restoreAttempted, restoreErr, closeErr, ret>>
    /\ UNCHANGED <<ctxDone, restoreFail>>
    /\ UNCHANGED <<diffVars, lintVars, capVars, totalsVars, inspectVars, resolveVars, exclusiveVars, envVars, adapterVars, scopeVars, pathVars, mgVars, linesVars, fanVars>>

SetupOldVersion == SetupVersion("setup_old", "oldModBackupFiles", "backup_old")

BackupOldVersion == BackupVersion("backup_old", "oldModBackupFiles", "setup_new")

SetupNewVersion == SetupVersion("setup_new", "newModBackupFiles", "backup_new")

BackupNewVersion == BackupVersion("backup_new", "newModBackupFiles", "resolve")

\* compareDepVersionsRecursively: the changed dependencies, each either
\* added by the new version or changed by it, or the error when the
\* version go resolved is not the one asked for
ResolveChangedDeps ==
    /\ mainPc = "resolve"
    /\ \/ /\ depsToInspect' \in SeqsUpTo({"added", "changed"}, MaxChangedDeps)
          /\ mainPc' = "loop"
          /\ runErr' = runErr
       \/ /\ Return(<<"cannot compare">>)
          /\ depsToInspect' = depsToInspect
    /\ UNCHANGED <<goMod, goSum, initialFiles, de, narg,
                   initOk, restoreAttempted, restoreErr, closeErr, ret>>
    /\ UNCHANGED <<ctxDone, restoreFail>>
    /\ UNCHANGED <<diffVars, lintVars, capVars, totalsVars, inspectVars, resolveVars, exclusiveVars, envVars, adapterVars, scopeVars, pathVars, mgVars, linesVars, fanVars>>

\* compareDepVersionsRecursively: the loop over the changed dependencies
NextChangedDep ==
    /\ mainPc = "loop"
    /\ IF depsToInspect = <<>> THEN Return(<<>>)
       ELSE /\ mainPc' = IF Head(depsToInspect) = "added" THEN "single_setup"
                         ELSE "old_dep_setup"
            /\ runErr' = runErr
    /\ UNCHANGED <<goMod, goSum, initialFiles, de, narg, depsToInspect,
                   initOk, restoreAttempted, restoreErr, closeErr, ret>>
    /\ UNCHANGED <<ctxDone, restoreFail>>
    /\ UNCHANGED <<diffVars, lintVars, capVars, totalsVars, inspectVars, resolveVars, exclusiveVars, envVars, adapterVars, scopeVars, pathVars, mgVars, linesVars, fanVars>>

\* What the caller of inspectSingleDepVersion or compareDepVersions does
\* with its error: mainErr returns it, the loop logs it and goes on
InspectionDone(err) ==
    IF narg = 1
    THEN Return(err) /\ depsToInspect' = depsToInspect
    ELSE runErr' = runErr /\ mainPc' = "loop" /\ depsToInspect' = Tail(depsToInspect)

\* inspectDep: setupDepVersion
InspectDepSetup(pc, pair, okPc) ==
    /\ mainPc = pc
    /\ \E r \in setupDepVersionCtx(ctxDone, goMod, goSum, de[pair]) :
         /\ goMod' = r.goMod
         /\ goSum' = r.goSum
         /\ de' = [de EXCEPT ![pair] = r.backup]
         /\ IF r.err = <<>>
            THEN mainPc' = okPc /\ runErr' = runErr /\ depsToInspect' = depsToInspect
            ELSE InspectionDone(r.err)
    /\ UNCHANGED <<initialFiles, narg,
                   initOk, restoreAttempted, restoreErr, closeErr, ret>>
    /\ UNCHANGED <<ctxDone, restoreFail>>
    /\ UNCHANGED <<diffVars, lintVars, capVars, totalsVars, inspectVars, resolveVars, exclusiveVars, envVars, adapterVars, scopeVars, pathVars, mgVars, linesVars, fanVars>>

\* inspectDep: listing the packages and running the analyzers
InspectDepAnalyze(pc, okPc) ==
    /\ mainPc = pc
    /\ \E r \in WithContext(ctxDone, {[err |-> <<>>], [err |-> <<"analysis">>]}) :
       \E err \in {r.err} :
         IF err = <<>>
         THEN mainPc' = okPc /\ runErr' = runErr /\ depsToInspect' = depsToInspect
         ELSE InspectionDone(err)
    /\ UNCHANGED <<goMod, goSum, initialFiles, de, narg,
                   initOk, restoreAttempted, restoreErr, closeErr, ret>>
    /\ UNCHANGED <<ctxDone, restoreFail>>
    /\ UNCHANGED <<diffVars, lintVars, capVars, totalsVars, inspectVars, resolveVars, exclusiveVars, envVars, adapterVars, scopeVars, pathVars, mgVars, linesVars, fanVars>>

\* inspectSingleDepVersion, compareDepVersions: writing the report
WriteOutput(pc) ==
    /\ mainPc = pc
    /\ \E r \in WithContext(ctxDone, {[err |-> <<>>], [err |-> <<"output">>]}) :
          InspectionDone(r.err)
    /\ UNCHANGED <<goMod, goSum, initialFiles, de, narg,
                   initOk, restoreAttempted, restoreErr, closeErr, ret>>
    /\ UNCHANGED <<ctxDone, restoreFail>>
    /\ UNCHANGED <<diffVars, lintVars, capVars, totalsVars, inspectVars, resolveVars, exclusiveVars, envVars, adapterVars, scopeVars, pathVars, mgVars, linesVars, fanVars>>

SingleSetup == InspectDepSetup("single_setup", "newModBackupFiles", "single_analyze")

SingleAnalyze == InspectDepAnalyze("single_analyze", "single_output")

SingleOutput == WriteOutput("single_output")

OldDepSetup == InspectDepSetup("old_dep_setup", "oldModBackupFiles", "old_dep_analyze")

OldDepAnalyze == InspectDepAnalyze("old_dep_analyze", "new_dep_setup")

NewDepSetup == InspectDepSetup("new_dep_setup", "newModBackupFiles", "new_dep_analyze")

NewDepAnalyze == InspectDepAnalyze("new_dep_analyze", "compare_output")

CompareOutput == WriteOutput("compare_output")

\* The deferred function of mainErr: restoreGoMod(de.modBackupFiles)
DeferredRestore ==
    /\ mainPc = "deferred"
    /\ \E fail \in RestoreFailures :
         \E r \in {deferredRestoreGoMod(ctxDone, goMod, goSum, de.modBackupFiles, fail)} :
            /\ goMod' = r.goMod
            /\ goSum' = r.goSum
            /\ de' = [de EXCEPT !.modBackupFiles = r.backup]
            /\ restoreErr' = r.err
            /\ restoreFail' = fail
    /\ restoreAttempted' = TRUE
    /\ mainPc' = "closing"
    /\ UNCHANGED <<initialFiles, narg, depsToInspect, initOk, runErr, closeErr, ret>>
    /\ UNCHANGED ctxDone
    /\ UNCHANGED <<diffVars, lintVars, capVars, totalsVars, inspectVars, resolveVars, exclusiveVars, envVars, adapterVars, scopeVars, pathVars, mgVars, linesVars, fanVars>>

\* The deferred function of mainErr: closeFiles, and the error mainErr returns
DeferredClose ==
    /\ mainPc = "closing"
    /\ closeErr' \in {<<>>, <<"close">>}
    /\ ret' = mainErrDefer(runErr, restoreErr, closeErr')
    /\ mainPc' = "exited"
    /\ UNCHANGED <<goMod, goSum, initialFiles, de, narg, depsToInspect,
                   initOk, restoreAttempted, runErr, restoreErr>>
    /\ UNCHANGED <<ctxDone, restoreFail>>
    /\ UNCHANGED <<diffVars, lintVars, capVars, totalsVars, inspectVars, resolveVars, exclusiveVars, envVars, adapterVars, scopeVars, pathVars, mgVars, linesVars, fanVars>>

\* mainRetCode (part_010:123-124): an interrupt cancels the context of
\* mainErr; the signal stays caught, so the process goes on
Interrupt ==
    /\ mainPc \notin {"init", "exited"}
    /\ ~ctxDone
    /\ ctxDone' = TRUE
    /\ UNCHANGED <<goMod, goSum, initialFiles, de, narg, mainPc, depsToInspect,
                   initOk, restoreAttempted, runErr, restoreErr, closeErr, ret,
                   restoreFail>>
    /\ UNCHANGED <<diffVars, lintVars, capVars, totalsVars, inspectVars, resolveVars, exclusiveVars, envVars, adapterVars, scopeVars, pathVars, mgVars, linesVars, fanVars>>

MainNext ==
    \/ Interrupt
    \/ InitDepInspector
    \/ CheckArgs
    \/ SetupOldVersion
    \/ BackupOldVersion
    \/ SetupNewVersion
    \/ BackupNewVersion
    \/ ResolveChangedDeps
    \/ NextChangedDep
    \/ SingleSetup
    \/ SingleAnalyze
    \/ SingleOutput
    \/ OldDepSetup
    \/ OldDepAnalyze
    \/ NewDepSetup
    \/ NewDepAnalyze
    \/ CompareOutput
    \/ DeferredRestore
    \/ DeferredClose

InitMain == MainInit /\ DiffIdle /\ LintIdle /\ CapIdle /\ TotalsIdle /\ InspectIdle /\ ResolveIdle /\ ExclusiveIdle /\ EnvIdle /\ AdapterIdle /\ ScopeIdle /\ PathIdle /\ MgIdle /\ LinesIdle /\ FanIdle

SpecMain == InitMain /\ [][MainNext]_vars

\* C1: once the deferred restoreGoMod(modBackupFiles) has returned nil, the
\* live go.mod and go.sum hold the bytes they held when the program backed
\* them up, whatever the pins, tidies and restores of snapshots in between
\* left in them; and restoring once more, before the backups are closed,
\* succeeds and leaves the same bytes.
C1_RestoreRoundTrip ==
    (mainPc \in {"closing", "exited"} /\ restoreAttempted /\ restoreErr = <<>>) =>
        /\ goMod = initialFiles.mod
        /\ goSum = initialFiles.sum
        /\ mainPc = "closing" =>
             LET again == restoreGoMod(goMod, goSum, de.modBackupFiles, "none")
             IN /\ again.err = <<>>
                /\ again.goMod = initialFiles.mod
                /\ again.goSum = initialFiles.sum

\* The restore succeeded after both versions were pinned and backed up, with
\* snapshots that differ from the original and a new one that is longer
C1_Witness ==
    /\ mainPc = "closing" /\ restoreErr = <<>> /\ narg = 3
    /\ ~de.oldModBackupFiles.sumFile.isNil
    /\ ~de.newModBackupFiles.sumFile.isNil
    /\ de.oldModBackupFiles.modFile.data # initialFiles.mod
    /\ Len(de.newModBackupFiles.modFile.data) > Len(initialFiles.mod)
    /\ Len(de.newModBackupFiles.sumFile.data) > Len(initialFiles.sum)
    /\ depsToInspect = <<>> /\ runErr = <<>>

\* C2: when init has succeeded, mainErr does not return before the deferred
\* function has attempted the restore, on every exit path; the error it
\* returns wraps the body's error and the restore's error (and the close's
\* error), so both are in it when both fail. The deferred function of the
\* older main.go keeps both too. When init fails nothing is restored.
C2_RestoreAlwaysAttempted ==
    (mainPc = "exited") =>
        /\ initOk =>
             /\ restoreAttempted
             /\ Range(runErr) \subseteq Range(ret)
             /\ Range(restoreErr) \subseteq Range(ret)
             /\ Range(closeErr) \subseteq Range(ret)
             /\ (ret = <<>>) <=> (runErr = <<>> /\ restoreErr = <<>> /\ closeErr = <<>>)
             /\ Range(runErr) \cup Range(restoreErr)
                    \subseteq Range(mainErrDeferMainGo(runErr, restoreErr))
        /\ ~initOk => (~restoreAttempted /\ ret # <<>>)

\* mainErr has returned after a pin failed and the restore failed as well
C2_Witness ==
    /\ mainPc = "exited" /\ initOk
    /\ runErr = <<"downloading">>
    /\ restoreErr = <<"restoring go.sum">>
    /\ Len(ret) >= 2

\* ------------------------------------------------------------------
\* inspectDep: the capability task and the lint task, run as two goroutines
\* that report over buffered channels, and the goroutine of inspectDep that
\* waits for both and collects what they sent.
\* ------------------------------------------------------------------

\* make(chan *capslockResult, 1)
CapsChCap == 1

\* make(chan []*lintIssue, 1)
IssuesChCap == 1

\* make(chan error, 2)
ErrChCap == 2

\* wg.Add(2)
WgAdd == 2

\* fmt.Errorf(msg + ": %w", err)
Errorf(msg, err) == <<[msg |-> msg, wraps |-> err]>>

\* errors.Is(err, target) for an error built by errors.Join and Errorf
errors_Is(err, target) == \E e \in Range(err) : e.wraps = target

\* What findCapabilities can return
CapOutcomes ==
    {[val |-> "caps 1", err |-> "nil"], [val |-> "caps 2", err |-> "nil"],
     [val |-> "nil", err |-> "capslock failed"],
     [val |-> "nil", err |-> "capslock output"]}

\* What lintDepVersion can return
LintOutcomes ==
    {[val |-> "issues 1", err |-> "nil"], [val |-> "issues 2", err |-> "nil"],
     [val |-> "nil", err |-> "golangci-lint failed"],
     [val |-> "nil", err |-> "staticcheck failed"]}

\* A wait that returns as soon as one task is done
wg_Wait_OneDone(counter) == counter <= 1

\* A wait that does not wait
wg_Wait_NoWait(counter) == TRUE

\* wg.Wait() returns when the counter is zero
wg_Wait(counter) == counter = 0

InspectInit ==
    /\ capsCh = <<>> /\ issuesCh = <<>> /\ errCh = <<>>
    /\ errChClosed = FALSE
    /\ wg = 0
    /\ capTaskPc = "unstarted" /\ lintTaskPc = "unstarted"
    /\ capOut = [val |-> "nil", err |-> "nil"]
    /\ lintOut = [val |-> "nil", err |-> "nil"]
    /\ inspectPc = "start"
    /\ inspectErrs = <<>>
    /\ inspectRet = [caps |-> "nil", issues |-> "nil", err |-> <<>>]

\* inspectDep before the tasks: setupDepVersion, listPackages, and the
\* check that the dependency is used; each can make inspectDep return
BeforeTasks ==
    /\ inspectPc = "start"
    /\ \E fail \in {"none", "setting up dependency", "listing packages",
                    "dependency is not used"} :
         IF fail = "none"
         THEN inspectPc' = "spawn" /\ inspectRet' = inspectRet
         ELSE /\ inspectPc' = "returned"
              /\ inspectRet' = [inspectRet EXCEPT !.err = Errorf(fail, fail)]
    /\ UNCHANGED <<capsCh, issuesCh, errCh, errChClosed, wg, capTaskPc, lintTaskPc,
                   capOut, lintOut, inspectErrs>>
    /\ UNCHANGED <<diffVars, lintVars, capVars, totalsVars, mainVars, resolveVars, exclusiveVars, envVars, adapterVars, scopeVars, pathVars, mgVars, linesVars, fanVars>>

\* wg.Add(2) and the two go statements
Spawn ==
    /\ inspectPc = "spawn"
    /\ wg' = wg + WgAdd
    /\ capTaskPc' = "run" /\ lintTaskPc' = "run"
    /\ inspectPc' = "wait"
    /\ UNCHANGED <<capsCh, issuesCh, errCh, errChClosed, capOut, lintOut,
                   inspectErrs, inspectRet>>
    /\ UNCHANGED <<diffVars, lintVars, capVars, totalsVars, mainVars, resolveVars, exclusiveVars, envVars, adapterVars, scopeVars, pathVars, mgVars, linesVars, fanVars>>

\* The capability task: findCapabilities returns
CapRun ==
    /\ capTaskPc = "run"
    /\ capOut' \in CapOutcomes
    /\ capTaskPc' = "send"
    /\ UNCHANGED <<capsCh, issuesCh, errCh, errChClosed, wg, lintTaskPc, lintOut,
                   inspectPc, inspectErrs, inspectRet>>
    /\ UNCHANGED <<diffVars, lintVars, capVars, totalsVars, mainVars, resolveVars, exclusiveVars, envVars, adapterVars, scopeVars, pathVars, mgVars, linesVars, fanVars>>

\* The capability task: the send on errCh or on capsCh. A send on a full
\* channel blocks; a send on a closed channel panics.
CapSend ==
    /\ capTaskPc = "send"
    /\ IF capOut.err # "nil"
       THEN IF errChClosed
            THEN capTaskPc' = "panic" /\ UNCHANGED <<errCh, capsCh>>
            ELSE /\ Len(errCh) < ErrChCap
                 /\ errCh' = Append(errCh, Errorf("finding capabilities of dependency", capOut.err))
                 /\ capTaskPc' = "deferred"
                 /\ UNCHANGED capsCh
       ELSE /\ Len(capsCh) < CapsChCap
            /\ capsCh' = Append(capsCh, capOut.val)
            /\ capTaskPc' = "deferred"
            /\ UNCHANGED errCh
    /\ UNCHANGED <<issuesCh, errChClosed, wg, lintTaskPc, capOut, lintOut,
                   inspectPc, inspectErrs, inspectRet>>
    /\ UNCHANGED <<diffVars, lintVars, capVars, totalsVars, mainVars, resolveVars, exclusiveVars, envVars, adapterVars, scopeVars, pathVars, mgVars, linesVars, fanVars>>

\* The capability task: the deferred wg.Done()
CapDone ==
    /\ capTaskPc = "deferred"
    /\ wg' = wg - 1
    /\ capTaskPc' = "done"
    /\ UNCHANGED <<capsCh, issuesCh, errCh, errChClosed, lintTaskPc, capOut, lintOut,
                   inspectPc, inspectErrs, inspectRet>>
    /\ UNCHANGED <<diffVars, lintVars, capVars, totalsVars, mainVars, resolveVars, exclusiveVars, envVars, adapterVars, scopeVars, pathVars, mgVars, linesVars, fanVars>>

\* The lint task: lintDepVersion returns
LintRun ==
    /\ lintTaskPc = "run"
    /\ lintOut' \in LintOutcomes
    /\ lintTaskPc' = "send"
    /\ UNCHANGED <<capsCh, issuesCh, errCh, errChClosed, wg, capTaskPc, capOut,
                   inspectPc, inspectErrs, inspectRet>>
    /\ UNCHANGED <<diffVars, lintVars, capVars, totalsVars, mainVars, resolveVars, exclusiveVars, envVars, adapterVars, scopeVars, pathVars, mgVars, linesVars, fanVars>>

\* The lint task: the send on errCh or on issuesCh
LintSend ==
    /\ lintTaskPc = "send"
    /\ IF lintOut.err # "nil"
       THEN IF errChClosed
            THEN lintTaskPc' = "panic" /\ UNCHANGED <<errCh, issuesCh>>
            ELSE /\ Len(errCh) < ErrChCap
                 /\ errCh' = Append(errCh, Errorf("linting dependency", lintOut.err))
                 /\ lintTaskPc' = "deferred"
                 /\ UNCHANGED issuesCh
       ELSE /\ Len(issuesCh) < IssuesChCap
            /\ issuesCh' = Append(issuesCh, lintOut.val)
            /\ lintTaskPc' = "deferred"
            /\ UNCHANGED errCh
    /\ UNCHANGED <<capsCh, errChClosed, wg, capTaskPc, capOut, lintOut,
                   inspectPc, inspectErrs, inspectRet>>
    /\ UNCHANGED <<diffVars, lintVars, capVars, totalsVars, mainVars, resolveVars, exclusiveVars, envVars, adapterVars, scopeVars, pathVars, mgVars, linesVars, fanVars>>

\* The lint task: the deferred wg.Done()
LintDone ==
    /\ lintTaskPc = "deferred"
    /\ wg' = wg - 1
    /\ lintTaskPc' = "done"
    /\ UNCHANGED <<capsCh, issuesCh, errCh, errChClosed, capTaskPc, capOut, lintOut,
                   inspectPc, inspectErrs, inspectRet>>
    /\ UNCHANGED <<diffVars, lintVars, capVars, totalsVars, mainVars, resolveVars, exclusiveVars, envVars, adapterVars, scopeVars, pathVars, mgVars, linesVars, fanVars>>

\* wg.Wait()
WgWait ==
    /\ inspectPc = "wait"
    /\ wg_Wait(wg)
    /\ inspectPc' = "close"
    /\ UNCHANGED <<capsCh, issuesCh, errCh, errChClosed, wg, capTaskPc, lintTaskPc,
                   capOut, lintOut, inspectErrs, inspectRet>>
    /\ UNCHANGED <<diffVars, lintVars, capVars, totalsVars, mainVars, resolveVars, exclusiveVars, envVars, adapterVars, scopeVars, pathVars, mgVars, linesVars, fanVars>>

\* close(errCh)
CloseErrCh ==
    /\ inspectPc = "close"
    /\ errChClosed' = TRUE
    /\ inspectPc' = "range"
    /\ UNCHANGED <<capsCh, issuesCh, errCh, wg, capTaskPc, lintTaskPc,
                   capOut, lintOut, inspectErrs, inspectRet>>
    /\ UNCHANGED <<diffVars, lintVars, capVars, totalsVars, mainVars, resolveVars, exclusiveVars, envVars, adapterVars, scopeVars, pathVars, mgVars, linesVars, fanVars>>

\* for err := range errCh: one receive, or the end of the loop when the
\* channel is closed and empty
RangeErrCh ==
    /\ inspectPc = "range"
    /\ IF errCh # <<>>
       THEN /\ inspectErrs' = Append(inspectErrs, Head(errCh))
            /\ errCh' = Tail(errCh)
            /\ inspectPc' = "range"
       ELSE /\ errChClosed
            /\ inspectPc' = "collect"
            /\ UNCHANGED <<errCh, inspectErrs>>
    /\ UNCHANGED <<capsCh, issuesCh, errChClosed, wg, capTaskPc, lintTaskPc,
                   capOut, lintOut, inspectRet>>
    /\ UNCHANGED <<diffVars, lintVars, capVars, totalsVars, mainVars, resolveVars, exclusiveVars, envVars, adapterVars, scopeVars, pathVars, mgVars, linesVars, fanVars>>

\* A return that hands back whatever result one task did send, together
\* with the joined errors of the other
ReturnInspectDep_PartialResults ==
    /\ inspectPc = "collect"
    /\ inspectRet' = [caps   |-> IF capsCh # <<>> THEN Head(capsCh) ELSE "nil",
                      issues |-> IF issuesCh # <<>> THEN Head(issuesCh) ELSE "nil",
                      err    |-> errors_Join(inspectErrs)]
    /\ capsCh' = <<>> /\ issuesCh' = <<>>
    /\ inspectPc' = "returned"
    /\ UNCHANGED <<errCh, errChClosed, wg, capTaskPc, lintTaskPc,
                   capOut, lintOut, inspectErrs>>
    /\ UNCHANGED <<diffVars, lintVars, capVars, totalsVars, mainVars, resolveVars, exclusiveVars, envVars, adapterVars, scopeVars, pathVars, mgVars, linesVars, fanVars>>

\* The return statements of inspectDep: the joined errors, or the two
\* results received from capsCh and issuesCh
ReturnInspectDep ==
    /\ inspectPc = "collect"
    /\ IF Len(inspectErrs) # 0
       THEN /\ inspectRet' = [caps |-> "nil", issues |-> "nil",
                              err |-> errors_Join(inspectErrs)]
            /\ UNCHANGED <<capsCh, issuesCh>>
       ELSE /\ capsCh # <<>> /\ issuesCh # <<>>
            /\ inspectRet' = [caps |-> Head(capsCh), issues |-> Head(issuesCh),
                              err |-> <<>>]
            /\ capsCh' = Tail(capsCh)
            /\ issuesCh' = Tail(issuesCh)
    /\ inspectPc' = "returned"
    /\ UNCHANGED <<errCh, errChClosed, wg, capTaskPc, lintTaskPc,
                   capOut, lintOut, inspectErrs>>
    /\ UNCHANGED <<diffVars, lintVars, capVars, totalsVars, mainVars, resolveVars, exclusiveVars, envVars, adapterVars, scopeVars, pathVars, mgVars, linesVars, fanVars>>

InspectNext ==
    \/ BeforeTasks
    \/ Spawn
    \/ CapRun
    \/ CapSend
    \/ CapDone
    \/ LintRun
    \/ LintSend
    \/ LintDone
    \/ WgWait
    \/ CloseErrCh
    \/ RangeErrCh
    \/ ReturnInspectDep

InitInspect == InspectInit /\ DiffIdle /\ LintIdle /\ CapIdle /\ TotalsIdle /\ MainIdle /\ ResolveIdle /\ ExclusiveIdle /\ EnvIdle /\ AdapterIdle /\ ScopeIdle /\ PathIdle /\ MgIdle /\ LinesIdle /\ FanIdle

SpecInspect == InitInspect /\ [][InspectNext]_vars

\* The tasks were started
Spawned == capTaskPc # "unstarted" /\ lintTaskPc # "unstarted"

\* C10: once the tasks are started, inspectDep returns only after both the
\* capability task and the lint task have run to their end, in every
\* interleaving, and neither panics or is skipped when the other fails. The
\* error it returns wraps the failure of each task that failed, so with two
\* failures both can be recovered from it; with no failure it returns the
\* two results and a nil error.
C10_BothTasksFinish ==
    /\ capTaskPc # "panic" /\ lintTaskPc # "panic"
    /\ (inspectPc = "returned" /\ Spawned) =>
        /\ capTaskPc = "done" /\ lintTaskPc = "done"
        /\ capOut.err # "nil" => errors_Is(inspectRet.err, capOut.err)
        /\ lintOut.err # "nil" => errors_Is(inspectRet.err, lintOut.err)
        /\ (capOut.err # "nil" \/ lintOut.err # "nil") =>
              (inspectRet.caps = "nil" /\ inspectRet.issues = "nil")
        /\ (capOut.err = "nil" /\ lintOut.err = "nil") =>
              /\ inspectRet.err = <<>>
              /\ inspectRet.caps = capOut.val
              /\ inspectRet.issues = lintOut.val

\* inspectDep has returned after both tasks failed, the lint task first
C10_Witness ==
    /\ inspectPc = "returned" /\ Spawned
    /\ capOut.err # "nil" /\ lintOut.err # "nil"
    /\ Len(inspectRet.err) = 2
    /\ inspectRet.err[1].msg = "linting dependency"

\* C11: inspecting one version is all or nothing. When at least one of the
\* two tasks failed, inspectDep returns a nil capability result, a nil lint
\* list and a non-nil error, even though the other task succeeded and its
\* result sits in its channel; it returns results only when both succeeded,
\* and then both of them.
C11_AllOrNothing ==
    (inspectPc = "returned" /\ Spawned) =>
        /\ (capOut.err # "nil" \/ lintOut.err # "nil") =>
              /\ inspectRet.caps = "nil"
              /\ inspectRet.issues = "nil"
              /\ inspectRet.err # <<>>
        /\ (inspectRet.caps # "nil" \/ inspectRet.issues # "nil") =>
              /\ capOut.err = "nil" /\ lintOut.err = "nil"
              /\ inspectRet.caps # "nil" /\ inspectRet.issues # "nil"
              /\ inspectRet.err = <<>>

\* inspectDep has returned after the capability task failed and the lint
\* task succeeded: the lint result is still in issuesCh, unread
C11_Witness ==
    /\ inspectPc = "returned" /\ Spawned
    /\ capOut.err # "nil" /\ lintOut.err = "nil"
    /\ issuesCh = <<lintOut.val>>
    /\ inspectRet.issues = "nil"


\* ------------------------------------------------------------------
\* compareDepVersionsRecursively: the list of changed dependencies it
\* builds from the requirements of the old and the new snapshot, the check
\* of the versions go resolved for the dependency, and the loop that
\* inspects each changed dependency.
\* ------------------------------------------------------------------

\* The dependency and the two versions mainErr passes; mainErr has checked
\* that the versions differ and that the old one is the smaller
TargetDep == "d"

OldVer == "v1"

NewVer == "v2"

\* The list built from added requirements only
buildDepsToInspect_ChangedOnly(dep, oldVer, newVer, oldReq, newReq) ==
    [err |-> <<>>,
     deps |-> SelectSeq([i \in 1..Len(newReq) |->
                            [dep |-> newReq[i].Path, oldVer |-> "", newVer |-> newReq[i].Version]],
                        LAMBDA c : \A j \in 1..Len(oldReq) : oldReq[j].Path # c.dep)]

\* The two nested loops over newModFile.Require and oldModFile.Require:
\* the error they return, or the list depsToInspect
buildDepsToInspect(dep, oldVer, newVer, oldReq, newReq) ==
    LET scan(newDep) ==
            LET inner[j \in 1..(Len(oldReq) + 1)] ==
                    IF j > Len(oldReq)
                    THEN [err |-> <<>>, found |-> FALSE, entry |-> <<>>]
                    ELSE LET oldDep == oldReq[j] IN
                         IF oldDep.Path # newDep.Path THEN inner[j + 1]
                         ELSE IF oldDep.Path = dep /\ oldDep.Version # oldVer
                         THEN [err |-> <<"cannot compare: old version">>,
                               found |-> FALSE, entry |-> <<>>]
                         ELSE IF oldDep.Path = dep /\ newDep.Version # newVer
                         THEN [err |-> <<"cannot compare: new version">>,
                               found |-> FALSE, entry |-> <<>>]
                         ELSE IF oldDep.Version # newDep.Version
                         THEN [err |-> <<>>, found |-> TRUE,
                               entry |-> <<[dep |-> oldDep.Path,
                                            oldVer |-> oldDep.Version,
                                            newVer |-> newDep.Version]>>]
                         ELSE [inner[j + 1] EXCEPT !.found = TRUE]
            IN inner[1]
        outer[i \in 1..(Len(newReq) + 1)] ==
            IF i > Len(newReq) THEN [err |-> <<>>, deps |-> <<>>]
            ELSE LET r == scan(newReq[i]) IN
                 IF r.err # <<>> THEN [err |-> r.err, deps |-> <<>>]
                 ELSE LET rest == outer[i + 1]
                          added == IF r.found THEN <<>>
                                   ELSE <<[dep |-> newReq[i].Path, oldVer |-> "",
                                           newVer |-> newReq[i].Version]>>
                      IN IF rest.err # <<>> THEN rest
                         ELSE [err |-> <<>>, deps |-> r.entry \o added \o rest.deps]
    IN outer[1]

\* A loop that returns the first failure
afterInspection_Abort(outcome) ==
    IF outcome = "ok" THEN [pc |-> "loop", ret |-> <<>>]
    ELSE [pc |-> "returned", ret |-> <<outcome>>]

\* The loop over depsToInspect after one dependency: an error is logged,
\* and the loop goes on
afterInspection(outcome) == [pc |-> "loop", ret |-> <<>>]

\* The number of requirements of a snapshot
MaxRequires == 3

ModPaths == {TargetDep, "x", "y"}

ModVersions == {OldVer, NewVer}

\* The Require lists of a go.mod that go wrote: no module path twice
RequireLists ==
    {s \in SeqsUpTo([Path : ModPaths, Version : ModVersions], MaxRequires) :
        \A i, j \in 1..Len(s) : s[i].Path = s[j].Path => i = j}

ResolveInit ==
    /\ oldRequire \in RequireLists
    /\ newRequire \in RequireLists
    /\ changedDeps = <<>>
    /\ resolvePc = "resolve"
    /\ resolveRet = <<>>
    /\ inspected = <<>>

\* The loops that build depsToInspect, and the return of the version error
BuildDepsToInspect ==
    /\ resolvePc = "resolve"
    /\ \E r \in {buildDepsToInspect(TargetDep, OldVer, NewVer, oldRequire, newRequire)} :
         IF r.err # <<>>
         THEN resolvePc' = "returned" /\ resolveRet' = r.err /\ changedDeps' = changedDeps
         ELSE resolvePc' = "loop" /\ resolveRet' = resolveRet /\ changedDeps' = r.deps
    /\ UNCHANGED <<oldRequire, newRequire, inspected>>
    /\ UNCHANGED <<diffVars, lintVars, capVars, totalsVars, mainVars, inspectVars, exclusiveVars, envVars, adapterVars, scopeVars, pathVars, mgVars, linesVars, fanVars>>

\* One iteration of the loop over depsToInspect, on the dependency after
\* those inspected; how is the function called, outcome what it returned
InspectChangedDep(how, outcome) ==
    /\ resolvePc = "loop"
    /\ Len(inspected) < Len(changedDeps)
    /\ LET depToInspect == changedDeps[Len(inspected) + 1] IN
         /\ how = IF depToInspect.oldVer = "" THEN "inspectSingleDepVersion"
                  ELSE "compareDepVersions"
         /\ inspected' = Append(inspected, [dep |-> depToInspect, how |-> how,
                                            outcome |-> outcome])
    /\ resolvePc' = afterInspection(outcome).pc
    /\ resolveRet' = afterInspection(outcome).ret
    /\ UNCHANGED <<oldRequire, newRequire, changedDeps>>
    /\ UNCHANGED <<diffVars, lintVars, capVars, totalsVars, mainVars, inspectVars, exclusiveVars, envVars, adapterVars, scopeVars, pathVars, mgVars, linesVars, fanVars>>

\* The iteration on a newly added dependency
InspectAddedDep ==
    \E outcome \in {"ok", "error inspecting newly added dep"} :
        InspectChangedDep("inspectSingleDepVersion", outcome)

\* The iteration on a dependency whose version changed
CompareChangedDep ==
    \E outcome \in {"ok", "error comparing versions of dep"} :
        InspectChangedDep("compareDepVersions", outcome)

\* The end of the loop: return nil
ReturnAfterLoop ==
    /\ resolvePc = "loop"
    /\ Len(inspected) = Len(changedDeps)
    /\ resolvePc' = "returned"
    /\ resolveRet' = <<>>
    /\ UNCHANGED <<oldRequire, newRequire, changedDeps, inspected>>
    /\ UNCHANGED <<diffVars, lintVars, capVars, totalsVars, mainVars, inspectVars, exclusiveVars, envVars, adapterVars, scopeVars, pathVars, mgVars, linesVars, fanVars>>

ResolveNext ==
    \/ BuildDepsToInspect
    \/ InspectAddedDep
    \/ CompareChangedDep
    \/ ReturnAfterLoop

InitResolve == ResolveInit /\ DiffIdle /\ LintIdle /\ CapIdle /\ TotalsIdle /\ MainIdle /\ InspectIdle /\ ExclusiveIdle /\ EnvIdle /\ AdapterIdle /\ ScopeIdle /\ PathIdle /\ MgIdle /\ LinesIdle /\ FanIdle

SpecResolve == InitResolve /\ [][ResolveNext]_vars

\* The version a Require list records for a module path ("" when absent)
VersionIn(req, path) ==
    IF \E i \in 1..Len(req) : req[i].Path = path
    THEN req[CHOOSE i \in 1..Len(req) : req[i].Path = path].Version
    ELSE ""

\* C12: when the version the old snapshot records for the dependency is not
\* the requested old version, or the one the new snapshot records is not the
\* requested new version, compareDepVersionsRecursively returns an error,
\* and no dependency is inspected.
C12_VersionConsistency ==
    (/\ resolvePc # "resolve"
     /\ \/ VersionIn(oldRequire, TargetDep) \notin {"", OldVer}
        \/ VersionIn(newRequire, TargetDep) \notin {"", NewVer}) =>
        /\ resolvePc = "returned"
        /\ resolveRet # <<>>
        /\ inspected = <<>>

\* The list of changed dependencies was built: no version error
Built == resolvePc = "loop" \/ (resolvePc = "returned" /\ resolveRet = <<>>)

\* For each requirement of the new snapshot, in order, the entry with the
\* version the old snapshot records for its path ("" when it has none),
\* without the requirements whose version is the same in both
ChangedRequirements ==
    SelectSeq([i \in 1..Len(newRequire) |->
                  [dep    |-> newRequire[i].Path,
                   oldVer |-> VersionIn(oldRequire, newRequire[i].Path),
                   newVer |-> newRequire[i].Version]],
              LAMBDA c : c.oldVer # c.newVer)

\* C13: the list compareDepVersionsRecursively builds has exactly one entry
\* for every requirement of the new snapshot whose path the old snapshot
\* does not have (with an empty old version) or has at another version
\* (with both versions), in the order of the new snapshot's requirements,
\* and no entry for a requirement whose version did not change.
C13_ChangedDepList ==
    Built => changedDeps = ChangedRequirements

\* A new snapshot with an unchanged, a changed and an added requirement
C13_Witness ==
    /\ Built
    /\ Len(newRequire) = 3
    /\ Len(changedDeps) = 2
    /\ changedDeps[1].oldVer # "" /\ changedDeps[2].oldVer = ""
    /\ VersionIn(oldRequire, TargetDep) = OldVer
    /\ VersionIn(newRequire, TargetDep) = NewVer

\* C14: the loop of compareDepVersionsRecursively takes the changed
\* dependencies one by one in the order of the list, each once, by
\* inspectSingleDepVersion when it is newly added and by compareDepVersions
\* otherwise, whatever the earlier ones returned; it ends only after the
\* last one, and the function then returns nil even when some failed.
C14_FailureIsolation ==
    /\ Len(inspected) <= Len(changedDeps)
    /\ \A k \in 1..Len(inspected) :
          /\ inspected[k].dep = changedDeps[k]
          /\ inspected[k].how = IF changedDeps[k].oldVer = ""
                                THEN "inspectSingleDepVersion"
                                ELSE "compareDepVersions"
    /\ (resolvePc = "returned" /\ changedDeps # <<>>) =>
          /\ Len(inspected) = Len(changedDeps)
          /\ resolveRet = <<>>

\* The function has returned nil after the first changed dependency failed
\* and the later ones were still inspected
C14_Witness ==
    /\ resolvePc = "returned" /\ resolveRet = <<>>
    /\ Len(changedDeps) >= 2
    /\ Len(inspected) = Len(changedDeps)
    /\ inspected[1].outcome # "ok"
    /\ inspected[2].outcome = "ok"

\* ------------------------------------------------------------------
\* inspectDepVersions: the old version and then the new version are set up
\* (go.mod and go.sum rewritten) and inspected, each by inspectDep's two
\* goroutines, of which the lint one starts the two linters as goroutines of
\* its own (lintDepVersion).
\* ------------------------------------------------------------------

ExVersions == {"old", "new"}

\* The goroutines of one inspection: the two of inspectDep, the two of
\* lintDepVersion
TaskNames == {"capslock", "lint", "golangci-lint", "staticcheck"}

\* The goroutine has been started and has not returned
Alive(v, t) == taskPc[v][t] \notin {"unstarted", "done"}

ExclusiveInit ==
    /\ exPc = "setup"
    /\ exCur = "old"
    /\ manifestOpen = "none"
    /\ taskPc = [v \in ExVersions |-> [t \in TaskNames |-> "unstarted"]]
    /\ exWg = [v \in ExVersions |-> 0]
    /\ exLintWg = [v \in ExVersions |-> 0]
    /\ exFailed = [v \in ExVersions |-> FALSE]

\* inspectDep: setupDepVersion starts rewriting go.mod and go.sum (a
\* restore of the version's snapshot, or go get and go mod tidy)
BeginSetup ==
    /\ exPc = "setup"
    /\ manifestOpen' = exCur
    /\ exPc' = "mutating"
    /\ UNCHANGED <<exCur, taskPc, exWg, exLintWg, exFailed>>
    /\ UNCHANGED <<diffVars, lintVars, capVars, totalsVars, mainVars, inspectVars, resolveVars, envVars, adapterVars, scopeVars, pathVars, mgVars, linesVars, fanVars>>

\* inspectDep: setupDepVersion returns; on an error, and when listPackages
\* or the check that the dependency is used fails, inspectDep returns and
\* inspectDepVersions with it
EndSetup ==
    /\ exPc = "mutating"
    /\ manifestOpen' = "none"
    /\ \E ok \in BOOLEAN : exPc' = IF ok THEN "spawn" ELSE "returned"
    /\ UNCHANGED <<exCur, taskPc, exWg, exLintWg, exFailed>>
    /\ UNCHANGED <<diffVars, lintVars, capVars, totalsVars, mainVars, inspectVars, resolveVars, envVars, adapterVars, scopeVars, pathVars, mgVars, linesVars, fanVars>>

\* inspectDep: wg.Add(2) and the two go statements
SpawnTasks ==
    /\ exPc = "spawn"
    /\ exWg' = [exWg EXCEPT ![exCur] = @ + WgAdd]
    /\ taskPc' = [taskPc EXCEPT ![exCur]["capslock"] = "run", ![exCur]["lint"] = "run"]
    /\ exPc' = "wait"
    /\ UNCHANGED <<exCur, manifestOpen, exLintWg, exFailed>>
    /\ UNCHANGED <<diffVars, lintVars, capVars, totalsVars, mainVars, inspectVars, resolveVars, envVars, adapterVars, scopeVars, pathVars, mgVars, linesVars, fanVars>>

\* A goroutine that runs one analyzer: the analyzer exits, the goroutine
\* sends the result or the error
AnalyzerExits(v, t) ==
    /\ taskPc[v][t] = "run"
    /\ taskPc' = [taskPc EXCEPT ![v][t] = "deferred"]
    /\ \E ok \in BOOLEAN : exFailed' = [exFailed EXCEPT ![v] = @ \/ ~ok]
    /\ UNCHANGED <<exPc, exCur, manifestOpen, exWg, exLintWg>>
    /\ UNCHANGED <<diffVars, lintVars, capVars, totalsVars, mainVars, inspectVars, resolveVars, envVars, adapterVars, scopeVars, pathVars, mgVars, linesVars, fanVars>>

\* The capability goroutine: findCapabilities returns
CapslockExits == \E v \in ExVersions : AnalyzerExits(v, "capslock")

\* The capability goroutine, the lint goroutine: the deferred wg.Done()
TaskDone ==
    \E v \in ExVersions, t \in {"capslock", "lint"} :
        /\ taskPc[v][t] = "deferred"
        /\ taskPc' = [taskPc EXCEPT ![v][t] = "done"]
        /\ exWg' = [exWg EXCEPT ![v] = @ - 1]
        /\ UNCHANGED <<exPc, exCur, manifestOpen, exLintWg, exFailed>>
        /\ UNCHANGED <<diffVars, lintVars, capVars, totalsVars, mainVars, inspectVars, resolveVars, envVars, adapterVars, scopeVars, pathVars, mgVars, linesVars, fanVars>>

\* The lint goroutine: lintDepVersion returns an error before it starts the
\* linters, or does wg.Add(2) and the two go statements
LintStart ==
    \E v \in ExVersions :
        /\ taskPc[v]["lint"] = "run"
        /\ \/ /\ taskPc' = [taskPc EXCEPT ![v]["lint"] = "deferred"]
              /\ exFailed' = [exFailed EXCEPT ![v] = TRUE]
              /\ UNCHANGED exLintWg
           \/ /\ taskPc' = [taskPc EXCEPT ![v]["lint"] = "wait",
                                          ![v]["golangci-lint"] = "run",
                                          ![v]["staticcheck"] = "run"]
              /\ exLintWg' = [exLintWg EXCEPT ![v] = @ + WgAdd]
              /\ UNCHANGED exFailed
        /\ UNCHANGED <<exPc, exCur, manifestOpen, exWg>>
        /\ UNCHANGED <<diffVars, lintVars, capVars, totalsVars, mainVars, inspectVars, resolveVars, envVars, adapterVars, scopeVars, pathVars, mgVars, linesVars, fanVars>>

\* The goroutines of lintDepVersion: golangciLint, staticcheckLint return
LinterExits ==
    \E v \in ExVersions, t \in {"golangci-lint", "staticcheck"} : AnalyzerExits(v, t)

\* The goroutines of lintDepVersion: the deferred wg.Done()
LinterDone ==
    \E v \in ExVersions, t \in {"golangci-lint", "staticcheck"} :
        /\ taskPc[v][t] = "deferred"
        /\ taskPc' = [taskPc EXCEPT ![v][t] = "done"]
        /\ exLintWg' = [exLintWg EXCEPT ![v] = @ - 1]
        /\ UNCHANGED <<exPc, exCur, manifestOpen, exWg, exFailed>>
        /\ UNCHANGED <<diffVars, lintVars, capVars, totalsVars, mainVars, inspectVars, resolveVars, envVars, adapterVars, scopeVars, pathVars, mgVars, linesVars, fanVars>>

\* lintDepVersion: wg.Wait(), then its return to the lint goroutine
LintJoin ==
    \E v \in ExVersions :
        /\ taskPc[v]["lint"] = "wait"
        /\ wg_Wait(exLintWg[v])
        /\ taskPc' = [taskPc EXCEPT ![v]["lint"] = "deferred"]
        /\ UNCHANGED <<exPc, exCur, manifestOpen, exWg, exLintWg, exFailed>>
        /\ UNCHANGED <<diffVars, lintVars, capVars, totalsVars, mainVars, inspectVars, resolveVars, envVars, adapterVars, scopeVars, pathVars, mgVars, linesVars, fanVars>>

\* inspectDep: wg.Wait() and the return; inspectDepVersions goes on with
\* the new version when the old one was inspected without error
InspectJoin ==
    /\ exPc = "wait"
    /\ wg_Wait(exWg[exCur])
    /\ IF exCur = "old" /\ ~exFailed["old"]
       THEN exCur' = "new" /\ exPc' = "setup"
       ELSE exCur' = exCur /\ exPc' = "returned"
    /\ UNCHANGED <<manifestOpen, taskPc, exWg, exLintWg, exFailed>>
    /\ UNCHANGED <<diffVars, lintVars, capVars, totalsVars, mainVars, inspectVars, resolveVars, envVars, adapterVars, scopeVars, pathVars, mgVars, linesVars, fanVars>>

ExclusiveNext ==
    \/ BeginSetup
    \/ EndSetup
    \/ SpawnTasks
    \/ CapslockExits
    \/ TaskDone
    \/ LintStart
    \/ LinterExits
    \/ LinterDone
    \/ LintJoin
    \/ InspectJoin

InitExclusive == ExclusiveInit /\ DiffIdle /\ LintIdle /\ CapIdle /\ TotalsIdle /\ MainIdle /\ InspectIdle /\ ResolveIdle /\ EnvIdle /\ AdapterIdle /\ ScopeIdle /\ PathIdle /\ MgIdle /\ LinesIdle /\ FanIdle

SpecExclusive == InitExclusive /\ [][ExclusiveNext]_vars

\* C15: while go.mod and go.sum are being rewritten for a version, no
\* goroutine of an analyzer (capslock, golangci-lint, staticcheck, or the
\* lint goroutine that waits for the two linters) of either version is
\* alive; and from the moment the setup of the new version can start, every
\* goroutine of the old version's inspection has returned. The same holds
\* when inspectDepVersions returns.
C15_ManifestExclusivity ==
    /\ manifestOpen # "none" =>
          \A v \in ExVersions, t \in TaskNames : ~Alive(v, t)
    /\ exCur = "new" => \A t \in TaskNames : ~Alive("old", t)
    /\ exPc = "returned" => \A v \in ExVersions, t \in TaskNames : ~Alive(v, t)

\* go.mod and go.sum are being restored for the new version after the old
\* version was inspected by all three analyzers
C15_Witness ==
    /\ manifestOpen = "new"
    /\ \A t \in TaskNames : taskPc["old"][t] = "done"

\* ------------------------------------------------------------------
\* Subprocesses: the environment runGoCommand and runCommand give to the
\* commands they start. An environment is a set of <<name, value>> pairs;
\* cmd.Env is nil or a slice of "name=value" entries.
\* ------------------------------------------------------------------

\* goEnvVars
goEnvVars == <<"HOME", "PATH">>

\* os.Getenv: the value of the variable, "" when it is not set
Getenv(env, name) ==
    IF \E p \in env : p[1] = name THEN (CHOOSE p \in env : p[1] = name)[2] ELSE ""

\* runGoCommand: the slice it passes as env. make([]string, len(goEnvVars))
\* has len(goEnvVars) empty strings, and the entries are appended to them.
runGoCommandEnv(env) ==
    [isNil |-> FALSE,
     entries |-> [i \in 1..Len(goEnvVars) |-> <<"", "">>]
                 \o [i \in 1..Len(goEnvVars) |-> <<goEnvVars[i], Getenv(env, goEnvVars[i])>>]]

\* runCommand: it passes a nil env
runCommandEnv == [isNil |-> TRUE, entries |-> <<>>]

\* exec.Cmd with Env set by buildCommand: a nil Env means the environment of
\* the current process, and an entry without a name is no variable
StartedWith(cmdEnv, env) ==
    IF cmdEnv.isNil THEN env
    ELSE {cmdEnv.entries[i] : i \in 1..Len(cmdEnv.entries)} \ {<<"", "">>}

\* The commands started through runGoCommand
GoCommands == {"go get", "go mod tidy"}

\* The commands started through runCommand: the analyzers, and go env, go version
Analyzers == {"capslock", "golangci-lint", "staticcheck"}

GoQueries == {"go env GOMOD", "go env GOMODCACHE", "go version"}

EnvNames == {"HOME", "PATH", "GITHUB_TOKEN"}

EnvValues == {"a", "b"}

\* The environments a process can have: each name unset or set to a value
Environments ==
    {e \in SUBSET (EnvNames \X EnvValues) :
        \A p, q \in e : p[1] = q[1] => p = q}

EnvInit ==
    /\ parentEnv \in Environments
    /\ lastCmd = ""
    /\ childEnv = {}
    /\ envPc = "ready"

\* runGoCommand(ctx, args...)
RunGoCommand ==
    /\ envPc \in {"ready", "ran"}
    /\ lastCmd' \in GoCommands
    /\ childEnv' = StartedWith(runGoCommandEnv(parentEnv), parentEnv)
    /\ envPc' = "ran"
    /\ UNCHANGED parentEnv
    /\ UNCHANGED <<diffVars, lintVars, capVars, totalsVars, mainVars, inspectVars, resolveVars, exclusiveVars, adapterVars, scopeVars, pathVars, mgVars, linesVars, fanVars>>

\* runCommand(ctx, writer, args...)
RunCommand(cmds) ==
    /\ envPc \in {"ready", "ran"}
    /\ lastCmd' \in cmds
    /\ childEnv' = StartedWith(runCommandEnv, parentEnv)
    /\ envPc' = "ran"
    /\ UNCHANGED parentEnv
    /\ UNCHANGED <<diffVars, lintVars, capVars, totalsVars, mainVars, inspectVars, resolveVars, exclusiveVars, adapterVars, scopeVars, pathVars, mgVars, linesVars, fanVars>>

\* findCapabilities, golangciLint, staticcheckLint: the analyzer is started
RunAnalyzer == RunCommand(Analyzers)

\* init, getGoModCache, findStdlibURL: go env, go version
RunGoQuery == RunCommand(GoQueries)

EnvNext ==
    \/ RunGoCommand
    \/ RunAnalyzer
    \/ RunGoQuery

InitEnv == EnvInit /\ DiffIdle /\ LintIdle /\ CapIdle /\ TotalsIdle /\ MainIdle /\ InspectIdle /\ ResolveIdle /\ ExclusiveIdle /\ AdapterIdle /\ ScopeIdle /\ PathIdle /\ MgIdle /\ LinesIdle /\ FanIdle

SpecEnv == InitEnv /\ [][EnvNext]_vars

\* C16: the environment an analyzer (capslock, golangci-lint, staticcheck)
\* is started with holds only the variables of goEnvVars, HOME and PATH; no
\* other variable of the program's environment is in it.
C16_BoundedAnalyzerEnv ==
    (envPc = "ran" /\ lastCmd \in Analyzers) =>
        \A p \in childEnv : p[1] \in Range(goEnvVars)

\* ------------------------------------------------------------------
\* The lint adapters golangciLint and staticcheckLint: what they return for
\* each way the run of the linter can end and each output it can leave.
\* A run is [started, code]: the process was started and exited with the
\* code (-1 when a signal killed it), or it was not started (the binary is
\* not found, the context is cancelled before the start).
\* ------------------------------------------------------------------

\* runCommand: nil, the *exec.ExitError wrapped by formatCmdErr, or the
\* error of cmd.Run that is no exit status
runCommandErr(run) ==
    IF ~run.started THEN <<"exec: not started">>
    ELSE IF run.code # 0 THEN <<"exit status">>
    ELSE <<>>

\* errors.As(err, &exitErr) && exitErr.ExitCode() != 1
IsOtherExitStatus(run) == run.started /\ run.code \notin {0, 1}

\* json.Unmarshal(output.Bytes(), &results) of golangciLint: the output is
\* one JSON document, and empty output is an error
UnmarshalGolangci(out) ==
    IF out.empty \/ \E i \in 1..Len(out.items) : out.items[i] = "garbage"
    THEN [issues |-> <<>>, err |-> <<"decoding golangci-lint results">>]
    ELSE [issues |-> out.items, err |-> <<>>]

\* The json.Decoder loop of staticcheckLint: the output is a stream of JSON
\* values, and empty output is an empty stream
DecodeStaticcheck(out) ==
    IF \E i \in 1..Len(out.items) : out.items[i] = "garbage"
    THEN [issues |-> <<>>, err |-> <<"decoding staticcheck results">>]
    ELSE [issues |-> out.items, err |-> <<>>]

\* An adapter that fails on every exit status but 0
golangciLint_AnyExitFails(run, out) ==
    IF runCommandErr(run) # <<>>
    THEN [issues |-> <<>>, err |-> runCommandErr(run)]
    ELSE UnmarshalGolangci(out)

golangciLint(run, out) ==
    IF runCommandErr(run) # <<>> /\ IsOtherExitStatus(run)
    THEN [issues |-> <<>>, err |-> runCommandErr(run)]
    ELSE UnmarshalGolangci(out)

staticcheckLint(run, out) ==
    IF runCommandErr(run) # <<>> /\ IsOtherExitStatus(run)
    THEN [issues |-> <<>>, err |-> runCommandErr(run)]
    ELSE DecodeStaticcheck(out)

\* The number of values in the output of a linter
MaxIssues == 2

ExitCodes == {0, 1, 2, 3, -1}

CmdRuns ==
    {[started |-> TRUE, code |-> c] : c \in ExitCodes}
        \cup {[started |-> FALSE, code |-> 0]}

\* What a linter can leave on its standard output: nothing, or some JSON
\* values, each an issue or not decodable; nothing when it was not started
CmdOutputs ==
    {[empty |-> TRUE, items |-> <<>>]}
        \cup {[empty |-> FALSE, items |-> s] :
                s \in SeqsUpTo({"issue A", "issue B", "garbage"}, MaxIssues)}

AdapterInit ==
    /\ cmdRun \in CmdRuns
    /\ cmdOutput \in CmdOutputs
    /\ ~cmdRun.started => cmdOutput.empty
    /\ adapter = ""
    /\ adapterRet = [issues |-> <<>>, err |-> <<>>]
    /\ adapterPc = "call"

GolangciLint ==
    /\ adapterPc = "call"
    /\ adapter' = "golangci-lint"
    /\ adapterRet' = golangciLint(cmdRun, cmdOutput)
    /\ adapterPc' = "returned"
    /\ UNCHANGED <<cmdRun, cmdOutput>>
    /\ UNCHANGED <<diffVars, lintVars, capVars, totalsVars, mainVars, inspectVars, resolveVars, exclusiveVars, envVars, scopeVars, pathVars, mgVars, linesVars, fanVars>>

StaticcheckLint ==
    /\ adapterPc = "call"
    /\ adapter' = "staticcheck"
    /\ adapterRet' = staticcheckLint(cmdRun, cmdOutput)
    /\ adapterPc' = "returned"
    /\ UNCHANGED <<cmdRun, cmdOutput>>
    /\ UNCHANGED <<diffVars, lintVars, capVars, totalsVars, mainVars, inspectVars, resolveVars, exclusiveVars, envVars, scopeVars, pathVars, mgVars, linesVars, fanVars>>

AdapterNext ==
    \/ GolangciLint
    \/ StaticcheckLint

InitAdapter == AdapterInit /\ DiffIdle /\ LintIdle /\ CapIdle /\ TotalsIdle /\ MainIdle /\ InspectIdle /\ ResolveIdle /\ ExclusiveIdle /\ EnvIdle /\ ScopeIdle /\ PathIdle /\ MgIdle /\ LinesIdle /\ FanIdle

SpecAdapter == InitAdapter /\ [][AdapterNext]_vars

\* The output has no value that cannot be decoded
Decodable == \A i \in 1..Len(cmdOutput.items) : cmdOutput.items[i] # "garbage"

C18_NoRunErrorDiscarded ==
    (adapterPc = "returned" /\ (~cmdRun.started \/ cmdRun.code \notin {0, 1})) =>
        adapterRet.err # <<>>

\* ------------------------------------------------------------------
\* The scope of an inspection when only the used packages are inspected:
\* listPackages loads the packages of the consuming module and everything
\* they import, inspectDep checks that the dependency is used, and
\* listImportedPackages lists the packages of the dependency to inspect.
\* A package path is a string: a sequence of characters.
\* ------------------------------------------------------------------

\* strings.HasPrefix
HasPrefix(s, prefix) ==
    Len(prefix) <= Len(s) /\ SubSeq(s, 1, Len(prefix)) = prefix

\* The number of packages of the dependency
MaxDepPkgs == 3

\* The path of the consuming module, which has one package, and of the
\* dependency
ModName == <<"m">>

DepName == <<"d">>

\* A package of a third module
OtherPkg == <<"o", "/", "x">>

\* The packages of the dependency: d/a, d/b, ...
DepPkg(i) == <<"d", "/", <<"a", "b", "c", "e", "f">>[i]>>

\* A package of a fourth module, dx, whose path begins with the
\* characters of the dependency's path
PrefixPkg == <<"d", "x", "/", "y">>

\* All packages, in an order in which a package imports later ones only
\* (Go has no import cycles)
PkgOrder == <<ModName, OtherPkg, PrefixPkg>> \o [i \in 1..MaxDepPkgs |-> DepPkg(i)]

AllPkgs == Range(PkgOrder)

\* packages.Package.Module.Path
ModulePath(pkg) ==
    IF pkg = ModName THEN ModName
    ELSE IF pkg = OtherPkg THEN <<"o">>
    ELSE IF pkg = PrefixPkg THEN <<"d", "x">>
    ELSE DepName

\* The packages a package imports through any chain of imports
RECURSIVE ImportsWithin(_, _, _)
ImportsWithin(graph, pkg, n) ==
    IF n = 0 THEN {}
    ELSE graph[pkg] \cup UNION {ImportsWithin(graph, q, n - 1) : q \in graph[pkg]}

TransImports(graph, pkg) == ImportsWithin(graph, pkg, Len(PkgOrder))

\* listPackages: packages.Load(modName + "/...") and mapLoadedPkgs, which
\* adds the imports of every package it adds
listPackages(graph, modName) ==
    LET roots == {p \in AllPkgs : ModulePath(p) = modName}
    IN roots \cup UNION {TransImports(graph, p) : p \in roots}

\* inspectDep: is some loaded package of the dependency's module
depIsUsed(pkgs, dep) == \E pkg \in pkgs : ModulePath(pkg) = dep

\* listImportedPackages: the map pkgImports
pkgImportsOf(dep, modName, pkgs, graph) ==
    LET imported == {imp \in AllPkgs :
                        \E pkg \in pkgs : /\ HasPrefix(pkg, modName)
                                          /\ imp \in graph[pkg]
                                          /\ HasPrefix(imp, dep)}
    IN [p \in imported |-> graph[p]]

\* listImportedPackages: the packages of pkgImports that no package of
\* pkgImports has in its imports (the order of the list is the order of
\* the iteration over the map, which is not specified)
listImportedPackages(dep, modName, pkgs, graph) ==
    LET pkgImports == pkgImportsOf(dep, modName, pkgs, graph)
    IN {pkgPath \in DOMAIN pkgImports :
            \A q \in DOMAIN pkgImports : pkgPath \notin pkgImports[q]}

\* The sequences that list the members of a set once each
OrdersOf(S) ==
    {s \in [1..Cardinality(S) -> S] : \A i, j \in 1..Cardinality(S) : s[i] = s[j] => i = j}

\* The imports there can be: of a package by an earlier one
ForwardImports ==
    {<<PkgOrder[e[1]], PkgOrder[e[2]]>> :
        e \in {e \in (1..Len(PkgOrder)) \X (1..Len(PkgOrder)) : e[1] < e[2]}}

ScopeInit ==
    /\ \E edges \in SUBSET ForwardImports :
          pkgImportGraph = [p \in AllPkgs |-> {q \in AllPkgs : <<p, q>> \in edges}]
    /\ loadedPkgs = {}
    /\ importsToCheck = <<>>
    /\ golangciLintDirs = {}
    /\ staticcheckDirs = {}
    /\ scopeErr = <<>>
    /\ scopePc = "list"

\* inspectDep: listPackages
ListPackages ==
    /\ scopePc = "list"
    /\ loadedPkgs' = listPackages(pkgImportGraph, ModName)
    /\ scopePc' = "check"
    /\ UNCHANGED <<pkgImportGraph, importsToCheck, golangciLintDirs, staticcheckDirs, scopeErr>>
    /\ UNCHANGED <<diffVars, lintVars, capVars, totalsVars, mainVars, inspectVars, resolveVars, exclusiveVars, envVars, adapterVars, pathVars, mgVars, linesVars, fanVars>>

\* inspectDep: the check that the dependency is used
CheckDepIsUsed ==
    /\ scopePc = "check"
    /\ IF depIsUsed(loadedPkgs, DepName)
       THEN scopePc' = "scope" /\ scopeErr' = scopeErr
       ELSE scopePc' = "returned" /\ scopeErr' = <<"is not used">>
    /\ UNCHANGED <<pkgImportGraph, loadedPkgs, importsToCheck, golangciLintDirs, staticcheckDirs>>
    /\ UNCHANGED <<diffVars, lintVars, capVars, totalsVars, mainVars, inspectVars, resolveVars, exclusiveVars, envVars, adapterVars, pathVars, mgVars, linesVars, fanVars>>

\* findCapabilities: listImportedPackages
ListImportedPackages ==
    /\ scopePc = "scope"
    /\ importsToCheck' \in OrdersOf(listImportedPackages(DepName, ModName, loadedPkgs, pkgImportGraph))
    /\ scopePc' = "lint"
    /\ UNCHANGED <<pkgImportGraph, loadedPkgs, golangciLintDirs, staticcheckDirs, scopeErr>>
    /\ UNCHANGED <<diffVars, lintVars, capVars, totalsVars, mainVars, inspectVars, resolveVars, exclusiveVars, envVars, adapterVars, pathVars, mgVars, linesVars, fanVars>>

\* lintDepVersion: the directories of the used packages.  A directory of
\* golangciLintDirs is filepath.Join(d.modCache, escVerStr, pkgPath) and is
\* written as pkgPath, the path below the directory of the version; the
\* slices hold a directory once, and are written as sets
LintDepVersionDirs ==
    /\ scopePc = "lint"
    /\ golangciLintDirs' = {SubSeq(pkg, Len(DepName) + 1, Len(pkg)) :
                                pkg \in {q \in loadedPkgs : HasPrefix(q, DepName)}}
    /\ staticcheckDirs' = {pkg \in loadedPkgs : HasPrefix(pkg, DepName)}
    /\ scopePc' = "returned"
    /\ UNCHANGED <<pkgImportGraph, loadedPkgs, importsToCheck, scopeErr>>
    /\ UNCHANGED <<diffVars, lintVars, capVars, totalsVars, mainVars, inspectVars, resolveVars, exclusiveVars, envVars, adapterVars, pathVars, mgVars, linesVars, fanVars>>

ScopeNext ==
    \/ ListPackages
    \/ CheckDepIsUsed
    \/ ListImportedPackages
    \/ LintDepVersionDirs

InitScope == ScopeInit /\ DiffIdle /\ LintIdle /\ CapIdle /\ TotalsIdle /\ MainIdle /\ InspectIdle /\ ResolveIdle /\ ExclusiveIdle /\ EnvIdle /\ AdapterIdle /\ PathIdle /\ MgIdle /\ LinesIdle /\ FanIdle

SpecScope == InitScope /\ [][ScopeNext]_vars

\* listImportedPackages has returned its list
Scoped == scopePc = "returned" /\ scopeErr = <<>>

\* The package is in the list or a member of the list imports it through
\* some chain of imports
Covered(pkg) ==
    \/ pkg \in Range(importsToCheck)
    \/ \E c \in Range(importsToCheck) : pkg \in TransImports(pkgImportGraph, c)

\* C19: for packages A and B of the dependency that the consuming module
\* both imports, when A imports B through any chain of imports, B is not in
\* the list listImportedPackages returns, and A is in it or is imported
\* through some chain by a member of it.
C19_DedupByContainment ==
    Scoped =>
        \A A, B \in pkgImportGraph[ModName] :
            (/\ ModulePath(A) = DepName /\ ModulePath(B) = DepName
             /\ B \in TransImports(pkgImportGraph, A)) =>
                (B \notin Range(importsToCheck) /\ Covered(A))

\* C20: every package of the dependency that the consuming module reaches
\* by imports, directly or through packages of other modules, is in the
\* list or imported through some chain by a member of it; and the list is
\* not empty when the check that the dependency is used has passed.
C20_ScopeCoverage ==
    Scoped =>
        /\ \A pkg \in loadedPkgs : ModulePath(pkg) = DepName => Covered(pkg)
        /\ importsToCheck # <<>>

\* The directory below the directory of the dependency's version in which
\* the package lies
DirOf(pkg) == SubSeq(pkg, Len(ModulePath(pkg)) + 1, Len(pkg))

\* C29: every import path listImportedPackages returns and every directory
\* and package lintDepVersion hands to the linters is of a package of the
\* module whose path is dep; a package of another module whose path begins
\* with the characters of dep is in none of them.
C29_ScopeOnlyDependency ==
    Scoped =>
        /\ \A pkg \in Range(importsToCheck) : ModulePath(pkg) = DepName
        /\ \A pkg \in staticcheckDirs : ModulePath(pkg) = DepName
        /\ \A dir \in golangciLintDirs :
              \E pkg \in loadedPkgs : ModulePath(pkg) = DepName /\ DirOf(pkg) = dir
(***************************************************************************)
(* The filenames issuesEqual compares.  The linters report the absolute    *)
(* path of a file in the module cache; lintDepVersion replaces it by       *)
(* trimFilename(filename, d.modCache) (part_004:166-175), and              *)
(* inspectDepVersions compares the issues of the two versions with         *)
(* issuesEqual(dep, a, b) (part_010:486-488).                              *)
(***************************************************************************)
\* strings.LastIndex(s, "/") as a position of the sequence, 0 when absent
LastSlash(s) ==
    LET at == {i \in 1..Len(s) : s[i] = "/"}
    IN  IF at = {} THEN 0 ELSE CHOOSE i \in at : \A k \in at : k <= i

\* filepath.Split(path): the directory with its final separator, the file
filepath_Split(path) ==
    <<SubSeq(path, 1, LastSlash(path)), SubSeq(path, LastSlash(path) + 1, Len(path))>>

\* strings.TrimPrefix(s, prefix)
TrimPrefix(s, prefix) ==
    IF Len(prefix) <= Len(s) /\ SubSeq(s, 1, Len(prefix)) = prefix
    THEN SubSeq(s, Len(prefix) + 1, Len(s))
    ELSE s

\* strings.Cut(s, sep): before, after, found
strings_Cut(s, sep) ==
    LET i == strings_Index(s, sep)
    IN  IF i = -1 THEN [before |-> s, after |-> <<>>, found |-> FALSE]
        ELSE [before |-> SubSeq(s, 1, i),
              after |-> SubSeq(s, i + Len(sep) + 1, Len(s)),
              found |-> TRUE]

\* path.Join(pkg, file) on two clean elements: empty elements are ignored
path_Join(pkg, file) ==
    IF pkg = <<>> THEN file
    ELSE IF file = <<>> THEN pkg
    ELSE pkg \o <<"/">> \o file

\* trimFilename (part_004:336-355): [err, name]
trimFilename(filename, goModCache) ==
    LET split == filepath_Split(filename)
        trimmed == TrimPrefix(split[1], goModCache \o <<"/">>)
        pkgPath == IF trimmed[Len(trimmed)] = "/"
                   THEN SubSeq(trimmed, 1, Len(trimmed) - 1)
                   ELSE trimmed
        verCut == strings_Cut(pkgPath, <<"@">>)
    IN  IF ~verCut.found
        THEN [err |-> <<"cached module dir missing version">>, name |-> <<>>]
        ELSE [err |-> <<>>,
              name |-> path_Join(strings_Cut(verCut.after, <<"/">>).after, split[2])]

\* The longest directory of the dependency, in path elements
MaxDirDepth == 3

ModCaches == {<<"/", "c">>, <<"/", "m", "/", "d">>}
PathVersions == {<<"1">>, <<"2">>}
DirNames == {<<"x">>, <<"m">>, <<"d">>}
FileNames == {<<"a">>}

RECURSIVE JoinElems(_)
JoinElems(elems) ==
    IF elems = <<>> THEN <<>>
    ELSE IF Len(elems) = 1 THEN elems[1]
    ELSE elems[1] \o <<"/">> \o JoinElems(Tail(elems))

\* The directories of the dependency, relative to its root
RelDirs == {JoinElems(e) : e \in SeqsUpTo(DirNames, MaxDirDepth)}

\* The path of a file of the dependency after the dependency's root
RelPaths == {path_Join(dir, f) : dir \in RelDirs, f \in FileNames}

\* The absolute path of the file rel of version ver in the module cache
CachePath(cache, ver, rel) ==
    cache \o <<"/">> \o Dep \o <<"@">> \o ver \o <<"/">> \o rel

\* The part of a cache path after the root of the dependency
AfterRoot(cache, filename) ==
    strings_Cut(TrimPrefix(filename, cache \o <<"/">> \o Dep \o <<"@">>), <<"/">>).after

PathInit ==
    /\ modCache \in ModCaches
    /\ \E va, vb \in PathVersions, ra, rb \in RelPaths :
          /\ rawFilenameA = CachePath(modCache, va, ra)
          /\ rawFilenameB = CachePath(modCache, vb, rb)
    /\ issueFilenameA = <<>> /\ issueFilenameB = <<>>
    /\ filenamesEqual = FALSE
    /\ pathPc = "lint"

\* The issue of the model with the given filename
IssueAt(filename) ==
    [FromLinter |-> "errcheck", Text |-> "T", SourceLines |-> <<<<"\t", "f">>>>,
     Pos |-> [Filename |-> filename, Line |-> 10, Column |-> 1]]

\* lintDepVersion, the loop over the issues (part_004:166-175)
TrimFilenames ==
    /\ pathPc = "lint"
    /\ \E ta \in {trimFilename(rawFilenameA, modCache)},
          tb \in {trimFilename(rawFilenameB, modCache)} :
          IF ta.err # <<>> \/ tb.err # <<>>
          THEN pathPc' = "failed" /\ UNCHANGED <<issueFilenameA, issueFilenameB>>
          ELSE /\ issueFilenameA' = ta.name
               /\ issueFilenameB' = tb.name
               /\ pathPc' = "compare"
    /\ UNCHANGED <<modCache, rawFilenameA, rawFilenameB, filenamesEqual>>
    /\ UNCHANGED <<diffVars, lintVars, capVars, totalsVars, mainVars, inspectVars, resolveVars, exclusiveVars, envVars, adapterVars, scopeVars, mgVars, linesVars, fanVars>>

\* inspectDepVersions: the predicate of the diff of the lint issues
IssuesEqual ==
    /\ pathPc = "compare"
    /\ filenamesEqual' = issuesEqual(Dep, IssueAt(issueFilenameA), IssueAt(issueFilenameB))
    /\ pathPc' = "done"
    /\ UNCHANGED <<modCache, rawFilenameA, rawFilenameB, issueFilenameA, issueFilenameB>>
    /\ UNCHANGED <<diffVars, lintVars, capVars, totalsVars, mainVars, inspectVars, resolveVars, exclusiveVars, envVars, adapterVars, scopeVars, mgVars, linesVars, fanVars>>

PathNext == TrimFilenames \/ IssuesEqual

InitPath == PathInit /\ DiffIdle /\ LintIdle /\ CapIdle /\ TotalsIdle /\ MainIdle /\ InspectIdle /\ ResolveIdle /\ ExclusiveIdle /\ EnvIdle /\ AdapterIdle /\ ScopeIdle /\ MgIdle /\ LinesIdle /\ FanIdle

SpecPath == InitPath /\ [][PathNext]_vars

\* C22: the filenames of two issues that agree in everything else are
\* compared by the part after the root of the dependency alone: the issues
\* are equal when these parts are equal, whatever the module cache and the
\* version directories, and not equal when these parts differ.
C22_LocationIndependent ==
    pathPc = "done" =>
        (filenamesEqual <=>
            AfterRoot(modCache, rawFilenameA) = AfterRoot(modCache, rawFilenameB))
(***************************************************************************)
(* The backup and restore of main.go.  The depInspector keeps the live     *)
(* go.mod and go.sum open from parseAndBackupGoMod (main.go:331-390) to    *)
(* restoreGoMod (main.go:392-423); "go get" and "go mod tidy" rewrite the  *)
(* files in between (main.go:466-482).                                     *)
(***************************************************************************)
\* The places where restoreGoMod of main.go can fail
MgRestoreFailures == {"none", "seek", "restoring go.mod", "restoring go.sum"}

\* restoreGoMod of main.go (392-423): the four handles are moved to offset
\* 0 and the backups are copied over the live files; nothing truncates the
\* live files.  The result when the step named by fail (if any) fails.
restoreGoModMainGo(modFile, sumFile, modBackupFile, sumBackupFile, fail) ==
    LET seekMod    == Seek(modFile, 0)
        seekSum    == Seek(sumFile, 0)
        seekModBak == Seek(modBackupFile, 0)
        seekSumBak == Seek(sumBackupFile, 0)
        copyMod    == io_Copy(seekMod, seekModBak)
        copySum    == io_Copy(seekSum, seekSumBak)
        result(m, s, mb, sb, e) ==
            [modFile |-> m, sumFile |-> s, modBackupFile |-> mb,
             sumBackupFile |-> sb, err |-> e]
    IN  CASE fail = "seek" ->
                result(modFile, sumFile, modBackupFile, sumBackupFile, <<fail>>)
          [] fail = "restoring go.mod" ->
                result(seekMod, seekSum, seekModBak, seekSumBak, <<fail>>)
          [] fail = "restoring go.sum" ->
                result(copyMod[1], seekSum, copyMod[2], seekSumBak, <<fail>>)
          [] OTHER ->
                result(copyMod[1], copySum[1], copyMod[2], copySum[2], <<>>)

\* The calls of setupDepVersion in one run of main.go: one for a single
\* version, two for a comparison
MgMaxSetups == 2

MgInit ==
    /\ \E m \in ModContents, s \in SumContents :
          /\ mgModFile = OpenFile(m)
          /\ mgSumFile = OpenFile(s)
          /\ mgInitial = [mod |-> m, sum |-> s]
    /\ mgModBackupFile = NilFile
    /\ mgSumBackupFile = NilFile
    /\ mgSetups = 0 /\ mgRestoreErr = <<>>
    /\ mgPc = "init"

\* parseAndBackupGoMod of main.go, when nothing fails: go.mod is read to its
\* end and written to its backup, go.sum is copied to its backup
MgParseAndBackupGoMod ==
    /\ mgPc = "init"
    /\ \E cm \in {io_Copy(CreateTemp, mgModFile)}, cs \in {io_Copy(CreateTemp, mgSumFile)} :
          /\ mgModBackupFile' = cm[1]
          /\ mgModFile' = cm[2]
          /\ mgSumBackupFile' = cs[1]
          /\ mgSumFile' = cs[2]
    /\ mgPc' = "body"
    /\ UNCHANGED <<mgInitial, mgSetups, mgRestoreErr>>
    /\ UNCHANGED <<diffVars, lintVars, capVars, totalsVars, mainVars, inspectVars, resolveVars, exclusiveVars, envVars, adapterVars, scopeVars, pathVars, linesVars, fanVars>>

\* setupDepVersion of main.go: "go get" and "go mod tidy" leave the live
\* files with any contents; the handles of the depInspector stay where
\* they are
MgSetupDepVersion ==
    /\ mgPc = "body"
    /\ mgSetups < MgMaxSetups
    /\ \E m \in ModContents, s \in SumContents :
          /\ mgModFile' = [mgModFile EXCEPT !.data = m]
          /\ mgSumFile' = [mgSumFile EXCEPT !.data = s]
    /\ mgSetups' = mgSetups + 1
    /\ UNCHANGED <<mgModBackupFile, mgSumBackupFile, mgInitial, mgRestoreErr, mgPc>>
    /\ UNCHANGED <<diffVars, lintVars, capVars, totalsVars, mainVars, inspectVars, resolveVars, exclusiveVars, envVars, adapterVars, scopeVars, pathVars, linesVars, fanVars>>

\* The deferred function of mainErr of main.go: restoreGoMod
MgRestoreGoMod ==
    /\ mgPc = "body"
    /\ \E fail \in MgRestoreFailures :
          \E r \in {restoreGoModMainGo(mgModFile, mgSumFile, mgModBackupFile,
                                       mgSumBackupFile, fail)} :
              /\ mgModFile' = r.modFile
              /\ mgSumFile' = r.sumFile
              /\ mgModBackupFile' = r.modBackupFile
              /\ mgSumBackupFile' = r.sumBackupFile
              /\ mgRestoreErr' = r.err
    /\ mgPc' = "restored"
    /\ UNCHANGED <<mgInitial, mgSetups>>
    /\ UNCHANGED <<diffVars, lintVars, capVars, totalsVars, mainVars, inspectVars, resolveVars, exclusiveVars, envVars, adapterVars, scopeVars, pathVars, linesVars, fanVars>>

MgNext == MgParseAndBackupGoMod \/ MgSetupDepVersion \/ MgRestoreGoMod

InitMg == MgInit /\ DiffIdle /\ LintIdle /\ CapIdle /\ TotalsIdle /\ MainIdle /\ InspectIdle /\ ResolveIdle /\ ExclusiveIdle /\ EnvIdle /\ AdapterIdle /\ ScopeIdle /\ PathIdle /\ LinesIdle /\ FanIdle

SpecMg == InitMg /\ [][MgNext]_vars

\* C23: after restoreGoMod of main.go has returned without error, each live
\* file holds exactly the bytes of its backup, which are the bytes it had
\* at the start, also when "go get" or "go mod tidy" had made it longer.
C23_MainGoRestoreRewrites ==
    (mgPc = "restored" /\ mgRestoreErr = <<>>) =>
        /\ mgModFile.data = mgModBackupFile.data
        /\ mgSumFile.data = mgSumBackupFile.data
        /\ mgModFile.data = mgInitial.mod
        /\ mgSumFile.data = mgInitial.sum
(***************************************************************************)
(* lineReader and getSrcLines (line_reader.go).  A lineReader is the       *)
(* number of Scan calls made on it (line), the number of lines the scanner *)
(* has returned (scanned) and the text of the buffered line, which is      *)
(* empty before the first Scan and after the end of the file.              *)
(***************************************************************************)
\* newLineReader (line_reader.go:13-17)
newLineReader == [line |-> 0, scanned |-> 0, text |-> ""]

\* (*lineReader).Scan (line_reader.go:19-22): the reader after the call and
\* the value returned.  line is incremented also when the scanner is at
\* the end of the file.
lineReader_Scan(l, file) ==
    IF l.scanned < Len(file)
    THEN [reader |-> [line |-> l.line + 1, scanned |-> l.scanned + 1,
                      text |-> file[l.scanned + 1]],
          ok |-> TRUE]
    ELSE [reader |-> [line |-> l.line + 1, scanned |-> l.scanned, text |-> ""],
          ok |-> FALSE]

\* handleLine (line_reader.go:31-46): the lines collected so far after the
\* call, and the value returned
handleLine(line, text, first, last, lines) ==
    LET atStart == IF line = first THEN Append(lines, text) ELSE lines
    IN  IF line = last
        THEN [lines |-> IF first # last THEN Append(atStart, text) ELSE atStart,
              more |-> FALSE]
        ELSE IF line > first /\ line < last
             THEN [lines |-> Append(atStart, text), more |-> TRUE]
             ELSE [lines |-> atStart, more |-> TRUE]

\* The loop of getSrcLines (line_reader.go:53-62)
RECURSIVE getSrcLinesLoop(_, _, _, _, _)
getSrcLinesLoop(l, file, first, last, lines) ==
    LET scan == lineReader_Scan(l, file)
        h == handleLine(scan.reader.line, scan.reader.text, first, last, lines)
    IN  IF ~scan.ok THEN [lines |-> lines, reader |-> scan.reader]
        ELSE IF ~h.more THEN [lines |-> h.lines, reader |-> scan.reader]
        ELSE getSrcLinesLoop(scan.reader, file, first, last, h.lines)

\* getSrcLines without the look at the buffered line
getSrcLines_IgnoresBufferedLine(l, file, first, last) ==
    getSrcLinesLoop(l, file, first, last, <<>>)

\* getSrcLines (line_reader.go:28-63): the lines returned and the reader
\* after the call
getSrcLines(l, file, first, last) ==
    LET h == handleLine(l.line, l.text, first, last, <<>>)
    IN  IF ~h.more THEN [lines |-> h.lines, reader |-> l]
        ELSE getSrcLinesLoop(l, file, first, last, h.lines)

\* getSrcLines of lint.go (187-217), on a scanner of its own: the lines it
\* returns for the range first..last
RECURSIVE getSrcLinesLintGoLoop(_, _, _, _, _)
getSrcLinesLintGoLoop(line, file, first, last, lines) ==
    IF line > Len(file) THEN lines
    ELSE LET text == file[line]
             atStart == IF line = first THEN Append(lines, text) ELSE lines
         IN  IF line = last
             THEN IF first # last THEN Append(atStart, text) ELSE atStart
             ELSE getSrcLinesLintGoLoop(line + 1, file, first, last,
                      IF line > first /\ line < last
                      THEN Append(atStart, text) ELSE atStart)

getSrcLinesLintGo(file, first, last) == getSrcLinesLintGoLoop(1, file, first, last, <<>>)

\* The number of lines of the source file
MaxFileLines == 4

\* The number of calls of getSrcLines on one reader
MaxReaderCalls == 3

LineTexts == <<"l1", "l2", "l3", "l4", "l5", "l6">>

LinesInit ==
    /\ \E n \in 1..MaxFileLines : srcFile = SubSeq(LineTexts, 1, n)
    /\ lineRdr = newLineReader
    /\ lineBefore = 0 /\ startLine = 0 /\ endLine = 0
    /\ srcLines = <<>> /\ scannerSrcLines = <<>>
    /\ readerCalls = 0
    /\ linesPc \in {"getSrcLinesFromFile", "getCallsSrcLines"}

\* getSrcLinesFromFile(path, startLine, endLine) (part_004:271-285) as
\* staticcheckLint calls it (part_004:247-251): a reader of its own; the
\* issue has a start line in the file and an end line at or after it, or
\* the end line 0 when staticcheck reports no end position
GetSrcLinesFromFile ==
    /\ linesPc = "getSrcLinesFromFile"
    /\ \E first \in 1..Len(srcFile), last \in 0..Len(srcFile) :
          /\ last = 0 \/ first <= last
          /\ \E r \in {getSrcLines(newLineReader, srcFile, first, last)} :
                /\ srcLines' = r.lines
                /\ lineRdr' = r.reader
          /\ scannerSrcLines' = getSrcLinesLintGo(srcFile, first, last)
          /\ startLine' = first
          /\ endLine' = last
    /\ lineBefore' = 0
    /\ readerCalls' = 1
    /\ linesPc' = "returned"
    /\ UNCHANGED srcFile
    /\ UNCHANGED <<diffVars, lintVars, capVars, totalsVars, mainVars, inspectVars, resolveVars, exclusiveVars, envVars, adapterVars, scopeVars, pathVars, mgVars, fanVars>>

\* getCallsSrcLines (packages.go:290-308), one turn of its loop: the next
\* call of getSrcLines on the reader of the file, for any range of lines
\* of the file
GetCallsSrcLines ==
    /\ linesPc = "getCallsSrcLines"
    /\ readerCalls < MaxReaderCalls
    /\ \E first \in 1..Len(srcFile), last \in 1..Len(srcFile) :
          /\ first <= last
          /\ \E r \in {getSrcLines(lineRdr, srcFile, first, last)} :
                /\ srcLines' = r.lines
                /\ lineRdr' = r.reader
          /\ scannerSrcLines' = getSrcLinesLintGo(srcFile, first, last)
          /\ startLine' = first
          /\ endLine' = last
    /\ lineBefore' = lineRdr.line
    /\ readerCalls' = readerCalls + 1
    /\ UNCHANGED <<srcFile, linesPc>>
    /\ UNCHANGED <<diffVars, lintVars, capVars, totalsVars, mainVars, inspectVars, resolveVars, exclusiveVars, envVars, adapterVars, scopeVars, pathVars, mgVars, fanVars>>

LinesNext == GetSrcLinesFromFile \/ GetCallsSrcLines

InitLines == LinesInit /\ DiffIdle /\ LintIdle /\ CapIdle /\ TotalsIdle /\ MainIdle /\ InspectIdle /\ ResolveIdle /\ ExclusiveIdle /\ EnvIdle /\ AdapterIdle /\ ScopeIdle /\ PathIdle /\ MgIdle /\ FanIdle

SpecLines == InitLines /\ [][LinesNext]_vars

\* C24: a call of getSrcLines for the lines startLine..endLine of the file,
\* 1 <= startLine <= endLine <= number of lines, on a reader whose line is
\* at most startLine (a new reader, or the reader an earlier call left)
\* returns exactly these lines in order; a line the earlier call left in
\* the buffer is returned, not skipped.
C24_GetSrcLinesExact ==
    (/\ readerCalls >= 1
     /\ 1 <= startLine /\ startLine <= endLine /\ endLine <= Len(srcFile)
     /\ lineBefore <= startLine) =>
        /\ srcLines = SubSeq(srcFile, startLine, endLine)
        /\ lineRdr.line = endLine
        /\ lineRdr.text = srcFile[endLine]

\* The second call on a reader asks for a range that starts with the line
\* the first call left in the buffer and ends later.
C24_Witness ==
    /\ linesPc = "getCallsSrcLines"
    /\ readerCalls = 2
    /\ lineBefore = startLine
    /\ startLine >= 2
    /\ endLine > startLine
    /\ srcLines = SubSeq(srcFile, startLine, endLine)

\* C30: for an issue without end position (endLine 0) whose start line is
\* in the file, getSrcLinesFromFile returns exactly the one line startLine,
\* as the scanner loop of lint.go does.
C30_NoEndPosition ==
    (linesPc = "returned" /\ endLine = 0) =>
        /\ srcLines = <<srcFile[startLine]>>
        /\ srcLines = scannerSrcLines
(***************************************************************************)
(* Claims about the snapshots of a recursive comparison.                   *)
(***************************************************************************)
\* The live go.mod and go.sum hold the bytes of the snapshot of the pair
LiveEquals(pair) ==
    /\ ~de[pair].modFile.isNil /\ ~de[pair].sumFile.isNil
    /\ goMod = de[pair].modFile.data
    /\ goSum = de[pair].sumFile.data

\* C25: in a recursive comparison, whenever the analyzers of the inspection
\* of a changed dependency run, the live go.mod and go.sum hold the bytes of
\* the old snapshot (inspection of the old version) or of the new snapshot
\* (inspection of the new version, or of a newly added dependency): the
\* setupDepVersion before them restored the snapshot and ran neither "go
\* get" nor "go mod tidy".
C25_SnapshotReuse ==
    narg = 3 =>
        /\ mainPc = "old_dep_analyze" => LiveEquals("oldModBackupFiles")
        /\ mainPc \in {"new_dep_analyze", "single_analyze"} =>
              LiveEquals("newModBackupFiles")

\* The analyzers run on the new version of a changed dependency, after
\* those of its old version, and the two snapshots differ in both files.
C25_Witness ==
    /\ narg = 3
    /\ mainPc = "new_dep_analyze"
    /\ LiveEquals("newModBackupFiles")
    /\ de.oldModBackupFiles.modFile.data # de.newModBackupFiles.modFile.data
    /\ de.oldModBackupFiles.sumFile.data # de.newModBackupFiles.sumFile.data
(***************************************************************************)
(* Claims about a cancelled run.                                           *)
(***************************************************************************)
\* C26: a run whose context an interrupt cancelled after init succeeded
\* does not exit before the deferred function has called restoreGoMod on
\* the initial backup, and the restore does not depend on the context:
\* unless the file system fails it returns nil and the live go.mod and
\* go.sum hold the bytes they had at the start.
C26_RestoreWhenCancelled ==
    (mainPc = "exited" /\ initOk /\ ctxDone) =>
        /\ restoreAttempted
        /\ restoreFail = "none" =>
              /\ restoreErr = <<>>
              /\ goMod = initialFiles.mod
              /\ goSum = initialFiles.sum
        /\ Range(restoreErr) \subseteq Range(ret)

\* The context was cancelled while a version was being pinned: the body
\* failed, the live files were left changed, and the restore ran and
\* succeeded.
C26_Witness ==
    /\ mainPc = "exited" /\ initOk /\ ctxDone
    /\ runErr = <<"downloading">>
    /\ restoreAttempted /\ restoreFail = "none" /\ restoreErr = <<>>
    /\ goMod = initialFiles.mod /\ goSum = initialFiles.sum
    /\ de.oldModBackupFiles.modFile.isNil
    /\ narg = 3
(***************************************************************************)
(* lintDepVersion (part_004:80-122) as the lint task of inspectDep: the    *)
(* two linters run as goroutines that report over buffered channels, and   *)
(* lintDepVersion waits for both, collects the errors and receives the two *)
(* lists of issues.                                                        *)
(***************************************************************************)
\* make(chan []*lintIssue, 2)
LnIssuesChCap == 2

\* make(chan error, 2)
LnErrChCap == 2

\* wg.Add(2)
LnWgAdd == 2

LinterNames == {"golangci-lint", "staticcheck"}

\* What golangciLint and staticcheckLint can return
LinterOutcomes(l) ==
    {[val |-> <<l \o " issue">>, err |-> "nil"], [val |-> <<>>, err |-> "nil"],
     [val |-> <<>>, err |-> l \o " failed"]}

\* A send on a channel without buffer, with no receiver waiting
chan_CanSend_Unbuffered(ch, capacity) == FALSE

\* A send on a buffered channel goes on when the buffer has room
chan_CanSend(ch, capacity) == Len(ch) < capacity

FanInit ==
    /\ lnIssuesCh = <<>> /\ lnErrCh = <<>> /\ lnErrChClosed = FALSE /\ lnWg = 0
    /\ linterPc = [l \in LinterNames |-> "unstarted"]
    /\ linterOut = [l \in LinterNames |-> [val |-> <<>>, err |-> "nil"]]
    /\ lnPc = "unstarted"
    /\ lnErrs = <<>> /\ lnIssues = <<>>
    /\ lnRet = [val |-> "nil", err |-> "nil"]

\* lintDepVersion is called by the lint task; it returns at once when a
\* path cannot be escaped, and otherwise starts the two linters
LintDepStart ==
    /\ lintTaskPc = "run"
    /\ lnPc = "unstarted"
    /\ \/ /\ lnPc' = "returned"
          /\ lnRet' = [val |-> "nil", err |-> "escaping path"]
          /\ UNCHANGED <<lnWg, linterPc>>
       \/ /\ lnWg' = lnWg + LnWgAdd
          /\ linterPc' = [l \in LinterNames |-> "run"]
          /\ lnPc' = "wait"
          /\ UNCHANGED lnRet
    /\ UNCHANGED <<lnIssuesCh, lnErrCh, lnErrChClosed, linterOut, lnErrs, lnIssues>>
    /\ UNCHANGED <<diffVars, lintVars, capVars, totalsVars, mainVars, inspectVars, resolveVars, exclusiveVars, envVars, adapterVars, scopeVars, pathVars, mgVars, linesVars>>

\* A linter task: the linter returns
LinterRun(l) ==
    /\ linterPc[l] = "run"
    /\ \E out \in LinterOutcomes(l) : linterOut' = [linterOut EXCEPT ![l] = out]
    /\ linterPc' = [linterPc EXCEPT ![l] = "send"]
    /\ UNCHANGED <<lnIssuesCh, lnErrCh, lnErrChClosed, lnWg, lnPc, lnErrs, lnIssues, lnRet>>
    /\ UNCHANGED <<diffVars, lintVars, capVars, totalsVars, mainVars, inspectVars, resolveVars, exclusiveVars, envVars, adapterVars, scopeVars, pathVars, mgVars, linesVars>>

\* A linter task: the send on errCh or on issuesCh
LinterSend(l) ==
    /\ linterPc[l] = "send"
    /\ IF linterOut[l].err # "nil"
       THEN IF lnErrChClosed
            THEN linterPc' = [linterPc EXCEPT ![l] = "panic"] /\ UNCHANGED <<lnErrCh, lnIssuesCh>>
            ELSE /\ chan_CanSend(lnErrCh, LnErrChCap)
                 /\ lnErrCh' = Append(lnErrCh, Errorf("linting with " \o l, linterOut[l].err))
                 /\ linterPc' = [linterPc EXCEPT ![l] = "deferred"]
                 /\ UNCHANGED lnIssuesCh
       ELSE /\ chan_CanSend(lnIssuesCh, LnIssuesChCap)
            /\ lnIssuesCh' = Append(lnIssuesCh, linterOut[l].val)
            /\ linterPc' = [linterPc EXCEPT ![l] = "deferred"]
            /\ UNCHANGED lnErrCh
    /\ UNCHANGED <<lnErrChClosed, lnWg, linterOut, lnPc, lnErrs, lnIssues, lnRet>>
    /\ UNCHANGED <<diffVars, lintVars, capVars, totalsVars, mainVars, inspectVars, resolveVars, exclusiveVars, envVars, adapterVars, scopeVars, pathVars, mgVars, linesVars>>

\* A linter task: the deferred wg.Done()
LinterTaskDone(l) ==
    /\ linterPc[l] = "deferred"
    /\ lnWg' = lnWg - 1
    /\ linterPc' = [linterPc EXCEPT ![l] = "done"]
    /\ UNCHANGED <<lnIssuesCh, lnErrCh, lnErrChClosed, linterOut, lnPc, lnErrs, lnIssues, lnRet>>
    /\ UNCHANGED <<diffVars, lintVars, capVars, totalsVars, mainVars, inspectVars, resolveVars, exclusiveVars, envVars, adapterVars, scopeVars, pathVars, mgVars, linesVars>>

GolangciTask ==
    LinterRun("golangci-lint") \/ LinterSend("golangci-lint") \/ LinterTaskDone("golangci-lint")

StaticcheckTask ==
    LinterRun("staticcheck") \/ LinterSend("staticcheck") \/ LinterTaskDone("staticcheck")

\* lintDepVersion: wg.Wait() and close(errCh)
LintDepWait ==
    /\ lnPc = "wait"
    /\ wg_Wait(lnWg)
    /\ lnErrChClosed' = TRUE
    /\ lnPc' = "range"
    /\ UNCHANGED <<lnIssuesCh, lnErrCh, lnWg, linterPc, linterOut, lnErrs, lnIssues, lnRet>>
    /\ UNCHANGED <<diffVars, lintVars, capVars, totalsVars, mainVars, inspectVars, resolveVars, exclusiveVars, envVars, adapterVars, scopeVars, pathVars, mgVars, linesVars>>

\* lintDepVersion: for err := range errCh, and the return of the joined
\* errors when there are any
LintDepRange ==
    /\ lnPc = "range"
    /\ IF lnErrCh # <<>>
       THEN /\ lnErrs' = Append(lnErrs, Head(lnErrCh))
            /\ lnErrCh' = Tail(lnErrCh)
            /\ UNCHANGED <<lnPc, lnRet>>
       ELSE /\ lnErrChClosed
            /\ IF Len(lnErrs) # 0
               THEN lnPc' = "returned" /\ lnRet' = [val |-> "nil", err |-> "linters failed"]
               ELSE lnPc' = "receive" /\ UNCHANGED lnRet
            /\ UNCHANGED <<lnErrCh, lnErrs>>
    /\ UNCHANGED <<lnIssuesCh, lnErrChClosed, lnWg, linterPc, linterOut, lnIssues>>
    /\ UNCHANGED <<diffVars, lintVars, capVars, totalsVars, mainVars, inspectVars, resolveVars, exclusiveVars, envVars, adapterVars, scopeVars, pathVars, mgVars, linesVars>>

\* lintDepVersion: append(<-issuesCh, <-issuesCh...), one receive at a
\* time, and after the second one the sort, the trimming of the filenames,
\* which can fail, and the return
LintDepReceive ==
    /\ lnPc = "receive"
    /\ lnIssuesCh # <<>>
    /\ lnIssues' = Append(lnIssues, Head(lnIssuesCh))
    /\ lnIssuesCh' = Tail(lnIssuesCh)
    /\ IF Len(lnIssues') < LnWgAdd
       THEN UNCHANGED <<lnPc, lnRet>>
       ELSE /\ lnPc' = "returned"
            /\ lnRet' \in {[val |-> "issues 1", err |-> "nil"],
                           [val |-> "nil", err |-> "trimming filename"]}
    /\ UNCHANGED <<lnErrCh, lnErrChClosed, lnWg, linterPc, linterOut, lnErrs>>
    /\ UNCHANGED <<diffVars, lintVars, capVars, totalsVars, mainVars, inspectVars, resolveVars, exclusiveVars, envVars, adapterVars, scopeVars, pathVars, mgVars, linesVars>>

\* The lint task of inspectDep has the result of lintDepVersion
LintDepReturn ==
    /\ lintTaskPc = "run"
    /\ lnPc = "returned"
    /\ lintOut' = lnRet
    /\ lintTaskPc' = "send"
    /\ lnPc' = "finished"
    /\ UNCHANGED <<lnIssuesCh, lnErrCh, lnErrChClosed, lnWg, linterPc, linterOut,
                   lnErrs, lnIssues, lnRet>>
    /\ UNCHANGED <<capsCh, issuesCh, errCh, errChClosed, wg, capTaskPc, capOut,
                   inspectPc, inspectErrs, inspectRet>>
    /\ UNCHANGED <<diffVars, lintVars, capVars, totalsVars, mainVars, resolveVars, exclusiveVars, envVars, adapterVars, scopeVars, pathVars, mgVars, linesVars>>

FanNext ==
    \/ BeforeTasks
    \/ Spawn
    \/ CapRun
    \/ CapSend
    \/ CapDone
    \/ LintDepStart
    \/ GolangciTask
    \/ StaticcheckTask
    \/ LintDepWait
    \/ LintDepRange
    \/ LintDepReceive
    \/ LintDepReturn
    \/ LintSend
    \/ LintDone
    \/ WgWait
    \/ CloseErrCh
    \/ RangeErrCh
    \/ ReturnInspectDep

InitFan == InspectInit /\ FanInit /\ DiffIdle /\ LintIdle /\ CapIdle /\ TotalsIdle /\ MainIdle /\ ResolveIdle /\ ExclusiveIdle /\ EnvIdle /\ AdapterIdle /\ ScopeIdle /\ PathIdle /\ MgIdle /\ LinesIdle

SpecFan == InitFan /\ [][FanNext]_vars

\* A task that is at its send can send: the channel it sends on is open
\* and has room
CanSendNow(out, okCh, okCap, failCh, failCap, failClosed) ==
    IF out.err # "nil" THEN ~failClosed /\ Len(failCh) < failCap
    ELSE Len(okCh) < okCap

\* C27: in inspectDep and in lintDepVersion, whatever the two tasks
\* return, no task waits at a channel send, the wait for the two tasks ends
\* once both have called Done, the receives after the check of the errors
\* find a value in the channel, and so inspectDep goes on until it has
\* returned: no state before its return is without a next step.
C27_FanInNeverBlocks ==
    /\ capTaskPc = "send" =>
          CanSendNow(capOut, capsCh, CapsChCap, errCh, ErrChCap, errChClosed)
    /\ lintTaskPc = "send" =>
          CanSendNow(lintOut, issuesCh, IssuesChCap, errCh, ErrChCap, errChClosed)
    /\ \A l \in LinterNames :
          linterPc[l] = "send" =>
              CanSendNow(linterOut[l], lnIssuesCh, LnIssuesChCap,
                         lnErrCh, LnErrChCap, lnErrChClosed)
    /\ (inspectPc = "wait" /\ capTaskPc = "done" /\ lintTaskPc = "done") => wg = 0
    /\ (lnPc = "wait" /\ \A l \in LinterNames : linterPc[l] = "done") => lnWg = 0
    /\ (inspectPc = "collect" /\ Len(inspectErrs) = 0) =>
          (capsCh # <<>> /\ issuesCh # <<>>)
    /\ lnPc = "receive" => Len(lnIssuesCh) + Len(lnIssues) = LnWgAdd
    /\ capTaskPc # "panic" /\ lintTaskPc # "panic"
    /\ \A l \in LinterNames : linterPc[l] # "panic"
    /\ inspectPc # "returned" => ENABLED FanNext

\* inspectDep has returned the results of both tasks after both linters
\* sent their issues and lintDepVersion received the two lists.
C27_Witness ==
    /\ inspectPc = "returned"
    /\ inspectRet.err = <<>>
    /\ Len(lnIssues) = 2
    /\ lnPc = "finished"
====
